---- MODULE Spec2Model ----
(***************************************************************************)
(* ZedStore per-attribute B+-tree (zedstore_btree.c), the metapage root    *)
(* directory (zedstore_meta.c) and the UNDO based visibility rules         *)
(* (zedstore_visibility.c), as a state machine over tree pages.           *)
(*                                                                         *)
(* Sizes are measured in units of one item header: a page holds PageCap    *)
(* units, an internal page holds InternalCap downlinks.                    *)
(***************************************************************************)
EXTENDS Integers, Sequences, FiniteSets, TLC

\* ---------------------------------------------------------------- constants
InvalidZSTid == 0
MinZSTid == 1
\* the model's TID space: TIDs 1..MaxTid
MaxTid == 5
MaxRows == MaxTid
MaxZSTid == MaxTid
MaxPlusOneZSTid == MaxZSTid + 1
\* 0xFFFFFFFF, as a signed 32-bit value
InvalidBlockNumber == 0 - 1
\* number of tree blocks the relation can be extended to
MaxBlocks == 14
\* capacity of a leaf page, in item-header units
PageCap == 2
\* MaxZedStoreDatumSize: a page less its overhead (BLCKSZ - 500)
MaxZedStoreDatumSize == PageCap - 1
\* capacity of an internal page, in downlinks
InternalCap == 2
\* transactions 1..MaxXid
MaxXid == 2
\* command ids 0..MaxCid
MaxCid == 1
\* the UNDO log holds at most MaxUndoLog records; the specifications of serial
\* transactions, of scans and of deletes stop at MaxUndo records
MaxUndoLog == 5
MaxUndo == 3
\* rows per zsbt_multi_insert call
MaxAtts == 3
MaxNatts == 5
MaxBatch == 2
\* blocks the relation can still be extended by when an insert begins
MaxRoom == 2
\* TIDs of one block of the TID space (MaxZSTidOffsetNumber - 1, 128 in the
\* source) and the number of values of a BlockNumber (2^32 in the source)
TidsPerBlock == 2
BlockNumberRange == 4
\* rows of one insert that make the longest array item
ArrayLen == 3
\* rows of a batch whose datums have sizes, the sizes, and
\* MaxZedStoreDatumSize in their unit
MaxPack == 3
DatumCap == 16
DatumSizes == {1, 3, 6}
InvalidUndoPtr == 0
ZS_META_ATTRIBUTE_NUM == 0
NBackends == 2
Backends == 1..NBackends

Tids == MinZSTid..MaxZSTid
Xids == 1..MaxXid
Cids == 0..MaxCid

Min(a, b) == IF a < b THEN a ELSE b
Max(a, b) == IF a > b THEN a ELSE b

\* ---------------------------------------------------------------- leaf items
\* ZSSingleBtreeItem / ZSArrayBtreeItem / ZSCompressedBtreeItem.  flags is a
\* subset of {"NULL","DEAD","DELETED","UPDATED"}; payload holds the datums of
\* a non-null item; contents holds the items of a compressed container.
SingleItem(tid, undo, flags, payload) ==
    [kind |-> "single", tid |-> tid, nelements |-> 1, flags |-> flags,
     undo |-> undo, payload |-> payload, lasttid |-> tid, csize |-> 0,
     contents |-> <<>>]

ArrayItem(tid, n, undo, flags, payload) ==
    [kind |-> "array", tid |-> tid, nelements |-> n, flags |-> flags,
     undo |-> undo, payload |-> payload, lasttid |-> tid + n - 1, csize |-> 0,
     contents |-> <<>>]

zsbt_item_lasttid(item) ==
    IF item.kind = "compressed" THEN item.lasttid
    ELSE IF item.kind = "array" THEN item.tid + item.nelements - 1
    ELSE item.tid

zsbt_item_undoptr(item) == item.undo

\* zsbt_create_item: a single item for one element, else an array item
zsbt_create_item(tid, undo, n, payload, isnull) ==
    IF n > 1
    THEN ArrayItem(tid, n, undo, IF isnull THEN {"NULL"} ELSE {}, payload)
    ELSE SingleItem(tid, undo, IF isnull THEN {"NULL"} ELSE {}, payload)

\* t_size of an item in header units: one header plus one unit per datum
ItemSize(item) ==
    IF item.kind = "compressed" THEN item.csize ELSE 1 + Len(item.payload)

RECURSIVE SumSizes(_)
SumSizes(items) ==
    IF items = <<>> THEN 0 ELSE ItemSize(Head(items)) + SumSizes(Tail(items))

\* the TIDs an item list covers, expanding arrays and containers
RECURSIVE ItemsTids(_)
ItemsTids(items) ==
    IF items = <<>> THEN {}
    ELSE LET it == Head(items) IN
         (IF it.kind = "compressed" THEN ItemsTids(it.contents)
          ELSE it.tid .. zsbt_item_lasttid(it)) \cup ItemsTids(Tail(items))

\* ---------------------------------------------------------------- compressor
\* zs_compress_*: size of the container a batch of usize units compresses to.
\* A batch of data that does not compress needs one unit more than its input.
CompressedSize(usize, compressible) ==
    IF compressible THEN (usize + 1) \div 2 ELSE usize + 1

\* zs_compress_add: the item fits if the container stays within the budget
zs_compress_add(batch, budget, item, compressible) ==
    CompressedSize(SumSizes(batch) + ItemSize(item), compressible) <= budget

\* zs_compress_finish: succeeds only if the container is smaller than its input
zs_compress_ok(batch, compressible) ==
    CompressedSize(SumSizes(batch), compressible) < SumSizes(batch)

zs_compress_finish(batch, compressible) ==
    [kind |-> "compressed", tid |-> batch[1].tid, nelements |-> 0, flags |-> {},
     undo |-> InvalidUndoPtr, payload |-> <<>>,
     lasttid |-> zsbt_item_lasttid(batch[Len(batch)]),
     csize |-> CompressedSize(SumSizes(batch), compressible),
     contents |-> batch]

\* ---------------------------------------------------------------- pages
\* ZSBtreePageOpaque plus the page body: items on a leaf, downlinks on an
\* internal page.
LeafImage(lokey, hikey, isroot) ==
    [used |-> TRUE, level |-> 0, lokey |-> lokey, hikey |-> hikey,
     next |-> InvalidBlockNumber, root |-> isroot, followright |-> FALSE,
     items |-> <<>>, downlinks |-> <<>>]

PageGetFreeSpace(page) == PageCap - SumSizes(page.items)

\* ---------------------------------------------------------------- recompress
\* a variant that leaves the hikey of the page before as it was
zsbt_recompress_newpage_KeepsHikey(cxt, nexttid, isroot) ==
    [cxt EXCEPT !.pages = Append(cxt.pages, LeafImage(nexttid, cxt.hikey, isroot))]

\* zsbt_recompress_context: pages (the last one is currpage), the batch held
\* by the compressor and its budget.
zsbt_recompress_newpage(cxt, nexttid, isroot) ==
    LET n == Len(cxt.pages)
        closed == IF n = 0 THEN cxt.pages
                  ELSE [cxt.pages EXCEPT ![n].hikey = nexttid]
    IN [cxt EXCEPT !.pages = Append(closed, LeafImage(nexttid, cxt.hikey, isroot))]

\* PageAddItemExtended fails when the item does not fit on an empty page:
\* "could not add item to page while recompressing"
zsbt_recompress_add_to_page(cxt, item) ==
    LET OnCurrPage(c1, n) ==
            IF PageGetFreeSpace(c1.pages[n]) < ItemSize(item)
            THEN [c1 EXCEPT !.err = TRUE]
            ELSE [c1 EXCEPT !.pages[n].items = Append(@, item)]
        WithRoom(c1) == OnCurrPage(c1, Len(c1.pages))
    IN WithRoom(IF PageGetFreeSpace(cxt.pages[Len(cxt.pages)]) < ItemSize(item)
                THEN zsbt_recompress_newpage(cxt, item.tid, FALSE)
                ELSE cxt)

RECURSIVE AddAllToPage(_, _)
AddAllToPage(cxt, items) ==
    IF items = <<>> THEN cxt
    ELSE AddAllToPage(zsbt_recompress_add_to_page(cxt, Head(items)), Tail(items))

\* the budget zs_compress_begin is given when the batch is empty
CompressorBudget(cxt) ==
    IF cxt.batch = <<>> THEN PageGetFreeSpace(cxt.pages[Len(cxt.pages)])
    ELSE cxt.budget

zsbt_recompress_can_add(cxt, item) ==
    zs_compress_add(cxt.batch, CompressorBudget(cxt), item, cxt.compressible)

zsbt_recompress_add_to_compressor(cxt, item) ==
    [cxt EXCEPT !.budget = CompressorBudget(cxt), !.batch = Append(@, item)]

zsbt_recompress_flush(cxt) ==
    IF cxt.batch = <<>> THEN cxt
    ELSE LET done == [cxt EXCEPT !.batch = <<>>] IN
         IF zs_compress_ok(cxt.batch, cxt.compressible)
         THEN zsbt_recompress_add_to_page(done,
                  zs_compress_finish(cxt.batch, cxt.compressible))
         ELSE AddAllToPage(done, cxt.batch)

\* can an old-enough DEAD item be left out?
DeadItemElided(item, oldest) ==
    "DEAD" \in item.flags /\ zsbt_item_undoptr(item) <= oldest

\* one iteration of the foreach loop of zsbt_recompress_replace
RecompressStep(cxt, item, oldest) ==
    IF DeadItemElided(item, oldest) THEN cxt
    ELSE IF item.kind = "compressed"
    THEN zsbt_recompress_add_to_page(zsbt_recompress_flush(cxt), item)
    ELSE IF zsbt_recompress_can_add(cxt, item)
    THEN zsbt_recompress_add_to_compressor(cxt, item)
    ELSE IF cxt.batch # <<>>
    THEN LET Flushed(f) ==
                 IF zsbt_recompress_can_add(f, item)
                 THEN zsbt_recompress_add_to_compressor(f, item)
                 ELSE zsbt_recompress_add_to_page(f, item)
         IN Flushed(zsbt_recompress_flush(cxt))
    ELSE zsbt_recompress_add_to_page(cxt, item)

RECURSIVE RecompressLoop(_, _, _)
RecompressLoop(cxt, items, oldest) ==
    IF items = <<>> THEN cxt
    ELSE RecompressLoop(RecompressStep(cxt, Head(items), oldest), Tail(items), oldest)

\* the page images zsbt_recompress_replace builds for the old page
RecompressPages(oldpage, items, oldest, compressible) ==
    LET cxt0 == [pages |-> <<>>, batch |-> <<>>, budget |-> 0,
                 hikey |-> oldpage.hikey, compressible |-> compressible,
                 err |-> FALSE]
        cxt1 == zsbt_recompress_newpage(cxt0, oldpage.lokey, oldpage.root)
    IN zsbt_recompress_flush(RecompressLoop(cxt1, items, oldest))

\* ---------------------------------------------------------------- UNDO log
ZSUNDO_TYPE_INSERT == "INSERT"
ZSUNDO_TYPE_DELETE == "DELETE"
ZSUNDO_TYPE_UPDATE == "UPDATE"
ZSUNDO_TYPE_TUPLE_LOCK == "TUPLE_LOCK"

LockTupleKeyShare == 0
LockTupleShare == 1
LockTupleNoKeyExclusive == 2
LockTupleExclusive == 3
LockModes == LockTupleKeyShare..LockTupleExclusive

UndoRec(type, xid, cid, tid, endtid, prev, newtid, keyupd, lockmode) ==
    [type |-> type, xid |-> xid, cid |-> cid, tid |-> tid, endtid |-> endtid,
     prevundorec |-> prev, newtid |-> newtid, key_update |-> keyupd,
     lockmode |-> lockmode]

\* a record whose storage was reclaimed when oldestundo moved past it
TrimmedRec == UndoRec("TRIMMED", 0, 0, 0, 0, 0, 0, FALSE, 0)

\* zsundo_insert: the record gets the next counter and is appended
zsundo_insert(log, rec) == Append(log, rec)
zsundo_next_counter(log) == Len(log) + 1
zsundo_fetch(log, ptr) == log[ptr]

IsZSUndoRecPtrValid(ptr) == ptr # InvalidUndoPtr

\* ---------------------------------------------------------------- transactions
TransactionIdIsInProgress(xs, xid) == xs[xid] = "inprogress"
TransactionIdDidCommit(xs, xid) == xs[xid] = "committed"

\* A snapshot: its type, the backend's transaction and command id, the
\* transactions XidInMVCCSnapshot() reports as still running, xmin and xmax.
Snapshot(type, curxid, curcid, xip, xmin) ==
    [type |-> type, curxid |-> curxid, curcid |-> curcid, xip |-> xip, xmin |-> xmin,
     xmax |-> 0]

TransactionIdIsCurrentTransactionId(snapshot, xid) == xid = snapshot.curxid
XidInMVCCSnapshot(xid, snapshot) == xid \in snapshot.xip

\* ---------------------------------------------------------------- visibility
\* variant: a held mode is compatible with every mode that is not stronger
zs_tuplelock_compatible_ByNumber(mode, newmode) == mode >= newmode

zs_tuplelock_compatible(mode, newmode) ==
    CASE newmode = LockTupleKeyShare ->
            mode \in {LockTupleKeyShare, LockTupleShare, LockTupleNoKeyExclusive}
      [] newmode = LockTupleShare -> mode \in {LockTupleKeyShare, LockTupleShare}
      [] newmode = LockTupleNoKeyExclusive -> mode = LockTupleKeyShare
      [] OTHER -> FALSE

IsDeletedItem(item) == item.flags \cap {"UPDATED", "DELETED"} # {}

\* a variant that sees what the current command has done
xid_is_visible_SeesOwnCommand(xs, snapshot, xid, cid) ==
    IF TransactionIdIsCurrentTransactionId(snapshot, xid)
    THEN [visible |-> cid <= snapshot.curcid, aborted |-> FALSE]
    ELSE IF XidInMVCCSnapshot(xid, snapshot)
    THEN [visible |-> FALSE, aborted |-> FALSE]
    ELSE IF TransactionIdDidCommit(xs, xid)
    THEN [visible |-> TRUE, aborted |-> FALSE]
    ELSE [visible |-> FALSE, aborted |-> TRUE]

\* xid_is_visible: [visible, aborted]
xid_is_visible(xs, snapshot, xid, cid) ==
    IF TransactionIdIsCurrentTransactionId(snapshot, xid)
    THEN [visible |-> cid < snapshot.curcid, aborted |-> FALSE]
    ELSE IF XidInMVCCSnapshot(xid, snapshot)
    THEN [visible |-> FALSE, aborted |-> FALSE]
    ELSE IF TransactionIdDidCommit(xs, xid)
    THEN [visible |-> TRUE, aborted |-> FALSE]
    ELSE [visible |-> FALSE, aborted |-> TRUE]

\* the do/while loop of zs_SatisfiesMVCC and zs_SatisfiesNonVacuumable: from a
\* delete, update or lock record walk back to the insert record; 0 when the
\* chain ends below the oldest UNDO pointer
RECURSIVE WalkToInsert(_, _, _)
WalkToInsert(log, ptr, oldest) ==
    LET prevptr == zsundo_fetch(log, ptr).prevundorec IN
    IF prevptr < oldest THEN InvalidUndoPtr
    ELSE IF zsundo_fetch(log, prevptr).type = ZSUNDO_TYPE_TUPLE_LOCK
    THEN WalkToInsert(log, prevptr, oldest)
    ELSE prevptr

\* the fetch_undo_record loop over tuple-lock records of a live item:
\* the first record that is not a tuple lock, 0 when below the oldest pointer
RECURSIVE SkipLocks(_, _, _)
SkipLocks(log, ptr, oldest) ==
    IF ptr < oldest THEN InvalidUndoPtr
    ELSE IF zsundo_fetch(log, ptr).type = ZSUNDO_TYPE_TUPLE_LOCK
    THEN SkipLocks(log, zsundo_fetch(log, ptr).prevundorec, oldest)
    ELSE ptr

zs_SatisfiesMVCC(log, xs, oldest, snapshot, item) ==
    LET undo_ptr == zsbt_item_undoptr(item) IN
    IF ~IsDeletedItem(item)
    THEN LET p == SkipLocks(log, undo_ptr, oldest) IN
         IF p = InvalidUndoPtr THEN TRUE
         ELSE LET rec == zsundo_fetch(log, p) IN
              xid_is_visible(xs, snapshot, rec.xid, rec.cid).visible
    ELSE IF undo_ptr < oldest THEN FALSE
    ELSE LET rec == zsundo_fetch(log, undo_ptr) IN
         IF xid_is_visible(xs, snapshot, rec.xid, rec.cid).visible THEN FALSE
         ELSE LET p == WalkToInsert(log, undo_ptr, oldest) IN
              IF p = InvalidUndoPtr THEN TRUE
              ELSE LET ins == zsundo_fetch(log, p) IN
                   xid_is_visible(xs, snapshot, ins.xid, ins.cid).visible

zs_SatisfiesSelf(log, xs, oldest, snapshot, item) ==
    LET undoptr == zsbt_item_undoptr(item) IN
    IF undoptr < oldest THEN ~IsDeletedItem(item)
    ELSE LET rec == zsundo_fetch(log, undoptr) IN
         IF ~IsDeletedItem(item)
         THEN IF TransactionIdIsCurrentTransactionId(snapshot, rec.xid) THEN TRUE
              ELSE IF TransactionIdIsInProgress(xs, rec.xid) THEN FALSE
              ELSE TransactionIdDidCommit(xs, rec.xid)
         ELSE IF TransactionIdIsCurrentTransactionId(snapshot, rec.xid) THEN FALSE
              ELSE IF TransactionIdIsInProgress(xs, rec.xid) THEN TRUE
              ELSE ~TransactionIdDidCommit(xs, rec.xid)

zs_SatisfiesDirty(log, xs, oldest, snapshot, item) ==
    LET undo_ptr == zsbt_item_undoptr(item) IN
    IF ~IsDeletedItem(item)
    THEN LET p == SkipLocks(log, undo_ptr, oldest) IN
         IF p = InvalidUndoPtr THEN TRUE
         ELSE LET rec == zsundo_fetch(log, p) IN
              IF TransactionIdIsCurrentTransactionId(snapshot, rec.xid) THEN TRUE
              ELSE IF TransactionIdIsInProgress(xs, rec.xid) THEN TRUE
              ELSE TransactionIdDidCommit(xs, rec.xid)
    ELSE IF undo_ptr < oldest THEN FALSE
    ELSE LET rec == zsundo_fetch(log, undo_ptr) IN
         IF TransactionIdIsCurrentTransactionId(snapshot, rec.xid) THEN FALSE
         ELSE IF TransactionIdIsInProgress(xs, rec.xid) THEN TRUE
         ELSE ~TransactionIdDidCommit(xs, rec.xid)

\* the snapshot zs_SatisfiesDirty leaves behind: it clears xmin and xmax and
\* records the inserter or the deleter that is in progress
DirtySnapshotAfter(log, xs, oldest, snapshot, item) ==
    LET reset == [snapshot EXCEPT !.xmin = 0, !.xmax = 0]
        InProgressOther(rec) ==
            /\ ~TransactionIdIsCurrentTransactionId(snapshot, rec.xid)
            /\ TransactionIdIsInProgress(xs, rec.xid)
        Inserted(p) ==
            IF p # InvalidUndoPtr /\ InProgressOther(zsundo_fetch(log, p))
            THEN [reset EXCEPT !.xmin = zsundo_fetch(log, p).xid]
            ELSE reset
        Deleted(undo_ptr) ==
            IF undo_ptr >= oldest /\ InProgressOther(zsundo_fetch(log, undo_ptr))
            THEN [reset EXCEPT !.xmax = zsundo_fetch(log, undo_ptr).xid]
            ELSE reset
    IN IF ~IsDeletedItem(item)
       THEN Inserted(SkipLocks(log, zsbt_item_undoptr(item), oldest))
       ELSE Deleted(zsbt_item_undoptr(item))

zs_SatisfiesNonVacuumable(log, xs, oldest, snapshot, item) ==
    LET undo_ptr == zsbt_item_undoptr(item) IN
    IF ~IsDeletedItem(item)
    THEN LET p == SkipLocks(log, undo_ptr, oldest) IN
         IF p = InvalidUndoPtr THEN TRUE
         ELSE LET rec == zsundo_fetch(log, p) IN
              TransactionIdIsInProgress(xs, rec.xid) \/ TransactionIdDidCommit(xs, rec.xid)
    ELSE IF undo_ptr < oldest THEN FALSE
    ELSE LET rec == zsundo_fetch(log, undo_ptr) IN
         IF TransactionIdIsInProgress(xs, rec.xid) THEN TRUE
         ELSE IF TransactionIdDidCommit(xs, rec.xid)
         THEN ~(rec.xid < snapshot.xmin)
         ELSE LET p == WalkToInsert(log, undo_ptr, oldest) IN
              IF p = InvalidUndoPtr THEN TRUE
              ELSE LET ins == zsundo_fetch(log, p) IN
                   TransactionIdIsInProgress(xs, ins.xid)
                       \/ TransactionIdDidCommit(xs, ins.xid)

\* variant: without the test of the DEAD flag
zs_SatisfiesVisibility_NoDeadCheck(log, xs, oldest, snapshot, item) ==
    IF ~IsZSUndoRecPtrValid(zsbt_item_undoptr(item)) THEN TRUE
    ELSE CASE snapshot.type = "MVCC" -> zs_SatisfiesMVCC(log, xs, oldest, snapshot, item)
           [] snapshot.type = "SELF" -> zs_SatisfiesSelf(log, xs, oldest, snapshot, item)
           [] snapshot.type = "ANY" -> TRUE
           [] snapshot.type = "DIRTY" -> zs_SatisfiesDirty(log, xs, oldest, snapshot, item)
           [] snapshot.type = "NONVAC" ->
                  zs_SatisfiesNonVacuumable(log, xs, oldest, snapshot, item)

zs_SatisfiesVisibility(log, xs, oldest, snapshot, item) ==
    IF "DEAD" \in item.flags THEN FALSE
    ELSE IF ~IsZSUndoRecPtrValid(zsbt_item_undoptr(item)) THEN TRUE
    ELSE CASE snapshot.type = "MVCC" -> zs_SatisfiesMVCC(log, xs, oldest, snapshot, item)
           [] snapshot.type = "SELF" -> zs_SatisfiesSelf(log, xs, oldest, snapshot, item)
           [] snapshot.type = "ANY" -> TRUE
           [] snapshot.type = "DIRTY" -> zs_SatisfiesDirty(log, xs, oldest, snapshot, item)
           [] snapshot.type = "NONVAC" ->
                  zs_SatisfiesNonVacuumable(log, xs, oldest, snapshot, item)

\* variant: every snapshot kind records the transactions in progress
SnapshotAfterVisibility_AllKinds(log, xs, oldest, snapshot, item) ==
    DirtySnapshotAfter(log, xs, oldest, snapshot, item)

\* the caller's snapshot after zs_SatisfiesVisibility has returned
SnapshotAfterVisibility(log, xs, oldest, snapshot, item) ==
    IF "DEAD" \in item.flags THEN snapshot
    ELSE IF ~IsZSUndoRecPtrValid(zsbt_item_undoptr(item)) THEN snapshot
    ELSE IF snapshot.type = "DIRTY"
    THEN DirtySnapshotAfter(log, xs, oldest, snapshot, item)
    ELSE snapshot

\* ---------------------------------------------------------------- zs_SatisfiesUpdate
TM_Ok == "TM_Ok"
TM_Invisible == "TM_Invisible"
TM_SelfModified == "TM_SelfModified"
TM_Updated == "TM_Updated"
TM_Deleted == "TM_Deleted"
TM_BeingModified == "TM_BeingModified"
InvalidCommandId == 0 - 1

\* variant: the failure record is left without xmax
TMResult_NoXmax(result, needed, ctid, xmax, cmax, next_tid) ==
    [result |-> result, undo_record_needed |-> needed, ctid |-> ctid,
     xmax |-> 0, cmax |-> cmax, next_tid |-> next_tid]

TMResult(result, needed, ctid, xmax, cmax, next_tid) ==
    [result |-> result, undo_record_needed |-> needed, ctid |-> ctid,
     xmax |-> xmax, cmax |-> cmax, next_tid |-> next_tid]

\* the branch for an item that is not deleted; undo_ptr walks down the chain
RECURSIVE SatisfiesUpdateLive(_, _, _, _, _, _, _, _)
SatisfiesUpdateLive(log, xs, oldest, snapshot, item, mode, undo_ptr, chain_depth) ==
    IF undo_ptr < oldest
    THEN TMResult(TM_Ok, chain_depth # 1, 0, 0, 0, InvalidZSTid)
    ELSE LET undorec == zsundo_fetch(log, undo_ptr) IN
         IF undorec.type = ZSUNDO_TYPE_INSERT
         THEN IF TransactionIdIsCurrentTransactionId(snapshot, undorec.xid)
              THEN IF undorec.cid >= snapshot.curcid
                   THEN TMResult(TM_Invisible, TRUE, 0, 0, 0, InvalidZSTid)
                   ELSE TMResult(TM_Ok, TRUE, 0, 0, 0, InvalidZSTid)
              ELSE IF TransactionIdIsInProgress(xs, undorec.xid)
              THEN TMResult(TM_Invisible, TRUE, 0, 0, 0, InvalidZSTid)
              ELSE IF TransactionIdDidCommit(xs, undorec.xid)
              THEN TMResult(TM_Ok, TRUE, 0, 0, 0, InvalidZSTid)
              ELSE TMResult(TM_Invisible, TRUE, 0, 0, 0, InvalidZSTid)
         ELSE IF undorec.type = ZSUNDO_TYPE_TUPLE_LOCK
         THEN IF TransactionIdIsCurrentTransactionId(snapshot, undorec.xid)
                   /\ undorec.lockmode >= mode
              THEN TMResult(TM_Ok, TRUE, 0, 0, 0, InvalidZSTid)
              ELSE IF ~TransactionIdIsCurrentTransactionId(snapshot, undorec.xid)
                      /\ ~zs_tuplelock_compatible(undorec.lockmode, mode)
                      /\ TransactionIdIsInProgress(xs, undorec.xid)
              THEN TMResult(TM_BeingModified, TRUE, item.tid, undorec.xid,
                            InvalidCommandId, InvalidZSTid)
              ELSE SatisfiesUpdateLive(log, xs, oldest, snapshot, item, mode,
                                       undorec.prevundorec, chain_depth + 1)
         ELSE TMResult("ERROR", TRUE, 0, 0, 0, InvalidZSTid)

zs_SatisfiesUpdate(log, xs, oldest, snapshot, item, mode) ==
    LET undo_ptr == zsbt_item_undoptr(item) IN
    IF ~IsDeletedItem(item)
    THEN SatisfiesUpdateLive(log, xs, oldest, snapshot, item, mode, undo_ptr, 1)
    ELSE IF undo_ptr < oldest
    THEN TMResult(TM_Invisible, TRUE, 0, 0, 0, InvalidZSTid)
    ELSE LET undorec == zsundo_fetch(log, undo_ptr)
             next_tid == IF undorec.type = ZSUNDO_TYPE_UPDATE
                         THEN undorec.newtid ELSE InvalidZSTid
             old_lockmode ==
                 IF undorec.type = ZSUNDO_TYPE_DELETE THEN LockTupleExclusive
                 ELSE IF undorec.key_update THEN LockTupleExclusive
                 ELSE LockTupleNoKeyExclusive
         IN
         IF undorec.type \notin {ZSUNDO_TYPE_DELETE, ZSUNDO_TYPE_UPDATE}
         THEN TMResult("ERROR", TRUE, 0, 0, 0, InvalidZSTid)
         ELSE IF TransactionIdIsCurrentTransactionId(snapshot, undorec.xid)
         THEN IF zs_tuplelock_compatible(old_lockmode, mode)
              THEN TMResult(TM_Ok, TRUE, 0, 0, 0, next_tid)
              ELSE IF undorec.cid >= snapshot.curcid
              THEN TMResult(TM_SelfModified, TRUE, item.tid, undorec.xid,
                            undorec.cid, next_tid)
              ELSE TMResult(TM_Invisible, TRUE, 0, 0, 0, next_tid)
         ELSE IF TransactionIdIsInProgress(xs, undorec.xid)
         THEN IF zs_tuplelock_compatible(old_lockmode, mode)
              THEN TMResult(TM_Ok, TRUE, 0, 0, 0, next_tid)
              ELSE TMResult(TM_BeingModified, TRUE, item.tid, undorec.xid,
                            InvalidCommandId, next_tid)
         ELSE IF ~TransactionIdDidCommit(xs, undorec.xid)
         THEN TMResult(TM_Ok, FALSE, 0, 0, 0, next_tid)
         ELSE IF undorec.type = ZSUNDO_TYPE_DELETE
         THEN TMResult(TM_Deleted, TRUE, item.tid, undorec.xid,
                       InvalidCommandId, next_tid)
         ELSE IF zs_tuplelock_compatible(old_lockmode, mode)
         THEN TMResult(TM_Ok, TRUE, 0, 0, 0, next_tid)
         ELSE TMResult(TM_Updated, TRUE, undorec.newtid, undorec.xid,
                       InvalidCommandId, next_tid)

\* ---------------------------------------------------------------- tree
\* The tree as the operations see it: the pages of the relation, the root
\* recorded in the metapage, and the error raised (elog ERROR), if any.
NoError == "none"
Tree(p, r, e) == [pages |-> p, rootblk |-> r, err |-> e]
RaiseError(T, msg) == IF T.err = NoError THEN [T EXCEPT !.err = msg] ELSE T

InternalImage(level, lokey, hikey, next, isroot, downlinks) ==
    [used |-> TRUE, level |-> level, lokey |-> lokey, hikey |-> hikey,
     next |-> next, root |-> isroot, followright |-> FALSE,
     items |-> <<>>, downlinks |-> downlinks]

Downlink(tid, childblk) == [tid |-> tid, childblk |-> childblk]

\* zspage_getnewbuf: the relation is extended by one block
zspage_getnewbuf(T) == Len(T.pages) + 1

\* zsmeta_get_root_for_attribute of the metapage code at hand, the one with
\* the attlen_p and attbyval_p arguments: the first root is a leaf over the
\* whole TID range with zs_flags = 0
zsmeta_get_root_with_attlen(T, forupdate) ==
    IF T.rootblk = InvalidBlockNumber /\ forupdate
    THEN [T EXCEPT !.pages = Append(@, LeafImage(MinZSTid, MaxPlusOneZSTid, FALSE)),
                   !.rootblk = zspage_getnewbuf(T)]
    ELSE T

\* zsmeta_get_root_for_attribute(rel, attno, for_update), the three-argument
\* routine that zsbt_descend calls: the tree after the call; the root it
\* returns is the rootblk of the result. The first root leaf carries
\* ZSBT_ROOT, the flag zsbt_insert_downlink and zsbt_recompress_replace read.
zsmeta_get_root_for_attribute(T, for_update) ==
    IF T.rootblk = InvalidBlockNumber /\ for_update
    THEN [T EXCEPT !.pages = Append(@, LeafImage(MinZSTid, MaxPlusOneZSTid, TRUE)),
                   !.rootblk = zspage_getnewbuf(T)]
    ELSE T

\* zsbt_binsrch_internal: index (from 0) of the last entry with tid <= key,
\* -1 when there is none
RECURSIVE BinsrchLoop(_, _, _, _)
BinsrchLoop(key, arr, low, high) ==
    IF high > low
    THEN LET mid == low + (high - low) \div 2 IN
         IF key >= arr[mid + 1].tid
         THEN BinsrchLoop(key, arr, mid + 1, high)
         ELSE BinsrchLoop(key, arr, low, mid)
    ELSE low - 1

zsbt_binsrch_internal(key, arr) == BinsrchLoop(key, arr, 0, Len(arr))

DescendResult(T, blk, err) == [T |-> T, blk |-> blk, err |-> err]

\* the for(;;) loop of zsbt_descend when no other backend changes the tree;
\* nextlevel is -1 until the first page is read and is kept over a restart
RECURSIVE DescendLoop(_, _, _, _, _, _)
DescendLoop(T, key, level, next, nextlevel, failblk) ==
    IF next = failblk
    THEN DescendResult(T, InvalidBlockNumber, "arrived at incorrect block")
    ELSE IF next \notin DOMAIN T.pages
    THEN DescendResult(T, InvalidBlockNumber, "could not read block")
    ELSE LET page == T.pages[next]
             lvl == IF nextlevel = 0 - 1 THEN page.level ELSE nextlevel
         IN
         IF page.level # lvl
         THEN DescendResult(T, InvalidBlockNumber, "unexpected level")
         ELSE IF key >= page.hikey
         THEN IF page.followright
              THEN DescendLoop(T, key, level, page.next, lvl, failblk)
              ELSE DescendLoop(T, key, level, T.rootblk, lvl, next)
         ELSE IF page.level = level
         THEN DescendResult(T, next, NoError)
         ELSE LET itemno == zsbt_binsrch_internal(key, page.downlinks) IN
              IF itemno < 0
              THEN DescendResult(T, InvalidBlockNumber, "could not descend tree")
              ELSE DescendLoop(T, key, level, page.downlinks[itemno + 1].childblk,
                               lvl - 1, failblk)

zsbt_descend(T0, key, level) ==
    LET T == zsmeta_get_root_for_attribute(T0, TRUE) IN
    IF T.rootblk = InvalidBlockNumber
    THEN DescendResult(T, InvalidBlockNumber, NoError)
    ELSE DescendLoop(T, key, level, T.rootblk, 0 - 1, InvalidBlockNumber)

ZSBtreeInternalPageIsFull(page) == Len(page.downlinks) >= InternalCap

\* a variant that clears only the root flag of the left child
zsbt_newroot_KeepsFollowRight(T, level, key1, blk1, key2, blk2, leftchildblk) ==
    LET newblk == zspage_getnewbuf(T)
        newpage == InternalImage(level, MinZSTid, MaxPlusOneZSTid, InvalidBlockNumber,
                                 TRUE, <<Downlink(key1, blk1), Downlink(key2, blk2)>>)
        cleared == [T.pages EXCEPT ![leftchildblk].root = FALSE]
    IN [T EXCEPT !.pages = Append(cleared, newpage), !.rootblk = newblk]

zsbt_newroot(T, level, key1, blk1, key2, blk2, leftchildblk) ==
    LET newblk == zspage_getnewbuf(T)
        newpage == InternalImage(level, MinZSTid, MaxPlusOneZSTid, InvalidBlockNumber,
                                 TRUE, <<Downlink(key1, blk1), Downlink(key2, blk2)>>)
        cleared == [T.pages EXCEPT ![leftchildblk].followright = FALSE,
                                   ![leftchildblk].root = FALSE]
    IN [T EXCEPT !.pages = Append(cleared, newpage), !.rootblk = newblk]

\* a variant of the copy loop that puts the new entry on the right page
RECURSIVE SplitCopy_NewOnRight(_, _, _, _, _, _, _, _)
SplitCopy_NewOnRight(origitems, i, newoff, newitem, newitemonleft, splitpoint, left, right) ==
    IF i >= Len(origitems)
    THEN IF i <= newoff
         THEN [left |-> left, right |-> Append(right, newitem)]
         ELSE [left |-> left, right |-> right]
    ELSE LET r1 == IF i = newoff THEN Append(right, newitem) ELSE right
         IN IF i < splitpoint
            THEN SplitCopy_NewOnRight(origitems, i + 1, newoff, newitem, newitemonleft,
                                      splitpoint, Append(left, origitems[i + 1]), r1)
            ELSE SplitCopy_NewOnRight(origitems, i + 1, newoff, newitem, newitemonleft,
                                      splitpoint, left, Append(r1, origitems[i + 1]))

\* the copy loop of zsbt_split_internal_page: entry i (from 0) of the
\* original page goes left below the split point, right otherwise; the new
\* entry goes in front of entry newoff
RECURSIVE SplitCopy(_, _, _, _, _, _, _, _)
SplitCopy(origitems, i, newoff, newitem, newitemonleft, splitpoint, left, right) ==
    IF i >= Len(origitems)
    THEN IF i <= newoff
         THEN [left |-> left, right |-> Append(right, newitem)]
         ELSE [left |-> left, right |-> right]
    ELSE LET l1 == IF i = newoff /\ newitemonleft THEN Append(left, newitem) ELSE left
             r1 == IF i = newoff /\ ~newitemonleft THEN Append(right, newitem) ELSE right
         IN IF i < splitpoint
            THEN SplitCopy(origitems, i + 1, newoff, newitem, newitemonleft, splitpoint,
                           Append(l1, origitems[i + 1]), r1)
            ELSE SplitCopy(origitems, i + 1, newoff, newitem, newitemonleft, splitpoint,
                           l1, Append(r1, origitems[i + 1]))

\* splitpoint = orignitems * 0.9
SplitPoint(orignitems) == (orignitems * 9) \div 10

InsertAt(seq, pos, x) == SubSeq(seq, 1, pos) \o <<x>> \o SubSeq(seq, pos + 1, Len(seq))

RECURSIVE zsbt_insert_downlink(_, _, _, _)
RECURSIVE zsbt_split_internal_page(_, _, _, _, _, _)

\* a variant of the internal split that leaves the follow-right flag of the
\* child set
zsbt_split_internal_page_KeepsFollowRight(T, leftblk, childblkno, newoff, newkey, childblk) ==
    LET orig == T.pages[leftblk]
        origitems == orig.downlinks
        rightblkno == zspage_getnewbuf(T)
        splitpoint == SplitPoint(Len(origitems))
        splittid == origitems[splitpoint + 1].tid
        newitemonleft == newkey < splittid
        parts == SplitCopy(origitems, 0, newoff, Downlink(newkey, childblk),
                           newitemonleft, splitpoint, <<>>, <<>>)
        rightpage == InternalImage(orig.level, splittid, orig.hikey, orig.next,
                                   FALSE, parts.right)
        leftpage == [orig EXCEPT !.next = rightblkno, !.hikey = splittid,
                                 !.followright = TRUE, !.downlinks = parts.left]
        written == [T.pages EXCEPT ![leftblk] = leftpage]
    IN zsbt_insert_downlink([T EXCEPT !.pages = Append(written, rightpage)],
                            leftblk, splittid, rightblkno)

\* zsbt_insert_downlink: after a split, add the downlink of the right page
zsbt_insert_downlink(T, leftblkno, rightlokey, rightblkno) ==
    LET left == T.pages[leftblkno]
        leftlokey == left.lokey
    IN
    IF T.err # NoError THEN T
    ELSE IF left.root
    THEN zsbt_newroot(T, left.level + 1, leftlokey, leftblkno, rightlokey, rightblkno,
                      leftblkno)
    ELSE LET OnParent(parentblk, parent, items, itemno) ==
                 IF itemno < 0 \/ items[itemno + 1].tid # leftlokey
                    \/ items[itemno + 1].childblk # leftblkno
                 THEN RaiseError(T, "could not find downlink")
                 ELSE IF ZSBtreeInternalPageIsFull(parent)
                 THEN zsbt_split_internal_page(T, parentblk, leftblkno, itemno + 1,
                                               rightlokey, rightblkno)
                 ELSE [T EXCEPT
                         !.pages[parentblk].downlinks =
                             InsertAt(items, itemno + 1, Downlink(rightlokey, rightblkno)),
                         !.pages[leftblkno].followright = FALSE]
             Descended(d) ==
                 IF d.err # NoError THEN RaiseError(T, d.err)
                 ELSE OnParent(d.blk, T.pages[d.blk], T.pages[d.blk].downlinks,
                               zsbt_binsrch_internal(rightlokey,
                                                     T.pages[d.blk].downlinks))
         IN Descended(zsbt_descend(T, leftlokey, left.level + 1))

\* zsbt_split_internal_page: 90/10 split of the parent, then the downlink of
\* the new internal page is inserted one level up
zsbt_split_internal_page(T, leftblk, childblkno, newoff, newkey, childblk) ==
    LET orig == T.pages[leftblk]
        origitems == orig.downlinks
        rightblkno == zspage_getnewbuf(T)
        splitpoint == SplitPoint(Len(origitems))
        splittid == origitems[splitpoint + 1].tid
        newitemonleft == newkey < splittid
        parts == SplitCopy(origitems, 0, newoff, Downlink(newkey, childblk),
                           newitemonleft, splitpoint, <<>>, <<>>)
        rightpage == InternalImage(orig.level, splittid, orig.hikey, orig.next,
                                   FALSE, parts.right)
        leftpage == [orig EXCEPT !.next = rightblkno, !.hikey = splittid,
                                 !.followright = TRUE, !.downlinks = parts.left]
        written == [T.pages EXCEPT ![leftblk] = leftpage,
                                   ![childblkno].followright = FALSE]
    IN zsbt_insert_downlink([T EXCEPT !.pages = Append(written, rightpage)],
                            leftblk, splittid, rightblkno)

\* ---------------------------------------------------------------- leaf rewrite
\* a variant whose last image does not take over the old page's right-link
WriteImages_DropsNext(T, oldblk, images) ==
    LET n == Len(images)
        base == Len(T.pages)
        blkof(i) == IF i = 1 THEN oldblk ELSE base + i - 1
        final(i) == IF i < n
                    THEN [images[i] EXCEPT !.next = blkof(i + 1), !.followright = TRUE]
                    ELSE images[i]
    IN [T EXCEPT !.pages =
           [b \in 1..(base + n - 1) |->
               IF b = oldblk THEN final(1)
               ELSE IF b > base THEN final(b - base + 1)
               ELSE T.pages[b]]]

\* the write-out of zsbt_recompress_replace: the first image overwrites the
\* old block, each further image gets a new block; every image but the last
\* points to its successor and has FOLLOW_RIGHT, the last gets the old next
WriteImages(T, oldblk, images) ==
    LET n == Len(images)
        base == Len(T.pages)
        blkof(i) == IF i = 1 THEN oldblk ELSE base + i - 1
        orignextblk == T.pages[oldblk].next
        final(i) == IF i < n
                    THEN [images[i] EXCEPT !.next = blkof(i + 1), !.followright = TRUE]
                    ELSE [images[i] EXCEPT !.next = orignextblk]
    IN [T EXCEPT !.pages =
           [b \in 1..(base + n - 1) |->
               IF b = oldblk THEN final(1)
               ELSE IF b > base THEN final(b - base + 1)
               ELSE T.pages[b]]]

\* the while loop that inserts the downlinks of the new pages, left to right
RECURSIVE InsertDownlinks(_, _)
InsertDownlinks(T, bufs) ==
    IF Len(bufs) <= 1 \/ T.err # NoError THEN T
    ELSE InsertDownlinks(
             zsbt_insert_downlink(T, bufs[1], T.pages[bufs[1]].hikey, bufs[2]),
             Tail(bufs))

zsbt_recompress_replace(T, oldblk, items, oldest, compressible) ==
    LET base == Len(T.pages)
        bufs(images) == [i \in 1..Len(images) |-> IF i = 1 THEN oldblk ELSE base + i - 1]
        Recompressed(cxt) ==
            IF cxt.err THEN RaiseError(T, "could not add item to page while recompressing")
            ELSE InsertDownlinks(WriteImages(T, oldblk, cxt.pages), bufs(cxt.pages))
    IN Recompressed(RecompressPages(T.pages[oldblk], items, oldest, compressible))

\* a block the relation was extended by that no page was written to
UnusedPage ==
    [used |-> FALSE, level |-> 0 - 1, lokey |-> InvalidZSTid, hikey |-> InvalidZSTid,
     next |-> InvalidBlockNumber, root |-> FALSE, followright |-> FALSE,
     items |-> <<>>, downlinks |-> <<>>]

\* the relation after zspage_getnewbuf has extended it n times
Extended(T, n) == [T EXCEPT !.pages = @ \o [i \in 1..n |-> UnusedPage]]

\* a variant that writes each image when its buffer is there: the first image
\* is on the old block when a later zspage_getnewbuf fails
AllocateThenWrite_WritesFirst(T, oldblk, images, room) ==
    IF Len(images) - 1 > room
    THEN RaiseError(Extended([T EXCEPT !.pages[oldblk] = images[1]], room),
                    "could not extend relation")
    ELSE WriteImages(T, oldblk, images)

\* the buffer allocation and the write-out of zsbt_recompress_replace when
\* the relation can be extended by room blocks only: every buffer is
\* allocated before START_CRIT_SECTION, and zspage_getnewbuf raises an error
\* when the relation cannot be extended
AllocateThenWrite(T, oldblk, images, room) ==
    IF Len(images) - 1 > room
    THEN RaiseError(Extended(T, room), "could not extend relation")
    ELSE WriteImages(T, oldblk, images)

\* the items of a compressed container (zs_decompress_chunk / read_item)
zs_decompress(citem) == citem.contents

\* a variant that keeps the whole array beside the replacement
ArrayPieces_KeepsArray(aitem, oldtid, replacement) == <<aitem>> \o replacement

\* the item list zsbt_replace_item builds from the old page: the item covering
\* oldtid is replaced (or removed when there is no replacement), an array
\* covering it is cut into the slice before, the replacement, the slice after
ArrayPieces(aitem, oldtid, replacement) ==
    LET cutoff == oldtid - aitem.tid
        isnull == "NULL" \in aitem.flags
        slice(from, n) == IF isnull THEN <<>> ELSE SubSeq(aitem.payload, from, from + n - 1)
        mk(tid, n, from) == zsbt_create_item(tid, aitem.undo, n, slice(from, n), isnull)
    IN (IF cutoff > 0 THEN <<mk(aitem.tid, cutoff, 1)>> ELSE <<>>)
       \o replacement
       \o (IF cutoff + 1 < aitem.nelements
           THEN <<mk(oldtid + 1, aitem.nelements - (cutoff + 1), cutoff + 2)>>
           ELSE <<>>)

\* [items, found, err]
RECURSIVE ReplaceLoop(_, _, _, _)
ReplaceLoop(src, oldtid, replacement, decompressing) ==
    IF src = <<>> THEN [items |-> <<>>, found |-> FALSE, err |-> NoError]
    ELSE LET item == Head(src)
             covers == oldtid # InvalidZSTid /\ item.tid <= oldtid
                       /\ oldtid <= zsbt_item_lasttid(item)
             rest == ReplaceLoop(Tail(src), oldtid, replacement, decompressing)
             keep(new, f) == [items |-> new \o rest.items, found |-> f \/ rest.found,
                              err |-> rest.err]
         IN
         IF item.kind = "compressed"
         THEN IF decompressing
              THEN [items |-> <<>>, found |-> FALSE, err |-> "nested compressed items"]
              ELSE IF covers
              THEN LET inner == ReplaceLoop(zs_decompress(item), oldtid, replacement, TRUE)
                   IN [items |-> inner.items \o rest.items,
                       found |-> inner.found \/ rest.found,
                       err |-> IF inner.err # NoError THEN inner.err ELSE rest.err]
              ELSE keep(<<item>>, FALSE)
         ELSE IF item.kind = "array"
         THEN IF covers THEN keep(ArrayPieces(item, oldtid, replacement), TRUE)
              ELSE keep(<<item>>, FALSE)
         ELSE IF oldtid # InvalidZSTid /\ item.tid = oldtid
         THEN keep(replacement, TRUE)
         ELSE keep(<<item>>, FALSE)

\* zsbt_replace_item; replacement is <<>> or a one-item sequence
zsbt_replace_item(T, blk, oldtid, replacement, newitems, oldest, compressible) ==
    LET Replaced(r) ==
            IF r.err # NoError THEN RaiseError(T, r.err)
            ELSE IF oldtid # InvalidZSTid /\ ~r.found
            THEN RaiseError(T, "could not find old item to replace")
            ELSE zsbt_recompress_replace(T, blk, r.items \o newitems, oldest,
                                         compressible)
    IN IF T.err # NoError THEN T
       ELSE Replaced(ReplaceLoop(T.pages[blk].items, oldtid, replacement, FALSE))

\* ---------------------------------------------------------------- buffers
\* the buffers a routine holds: those whose content lock it has, and those it
\* has pinned
Bufs(locked, pinned) == [locked |-> locked, pinned |-> pinned]
NoBufs == Bufs({}, {})
LockedAndPinned(buf) == Bufs({buf}, {buf})

\* a variant that drops the lock and keeps the pin
UnlockReleaseBuffer_KeepsPin(bufs, buf) == Bufs(bufs.locked \ {buf}, bufs.pinned)

UnlockReleaseBuffer(bufs, buf) == Bufs(bufs.locked \ {buf}, bufs.pinned \ {buf})

\* a variant of LockBuffer(buf, BUFFER_LOCK_UNLOCK) that leaves the lock
LockBufferUnlock_Noop(bufs, buf) == bufs

\* LockBuffer(buf, BUFFER_LOCK_UNLOCK)
LockBufferUnlock(bufs, buf) == Bufs(bufs.locked \ {buf}, bufs.pinned)

ReleaseBuffer(bufs, buf) == Bufs(bufs.locked, bufs.pinned \ {buf})

\* LockBuffer(buf, BUFFER_LOCK_SHARE)
LockBufferShare(bufs, buf) == Bufs(bufs.locked \cup {buf}, bufs.pinned)

ReleaseAndReadBuffer(bufs, buf, next) ==
    Bufs(bufs.locked, (bufs.pinned \ {buf}) \cup {next})

\* ---------------------------------------------------------------- fetch
NoItem == [kind |-> "none"]

\* the first item of the list that covers tid, looking into containers
RECURSIVE FindCovering(_, _)
FindCovering(items, tid) ==
    IF items = <<>> THEN NoItem
    ELSE LET item == Head(items) IN
         IF item.kind = "compressed"
         THEN LET inner == FindCovering(zs_decompress(item), tid) IN
              IF inner # NoItem THEN inner ELSE FindCovering(Tail(items), tid)
         ELSE IF item.tid <= tid /\ zsbt_item_lasttid(item) >= tid THEN item
         ELSE FindCovering(Tail(items), tid)

\* the single item zsbt_fetch returns for an element of an array item
ExtractElement(item, tid) ==
    IF item.kind = "array"
    THEN SingleItem(tid, item.undo, item.flags,
                    IF "NULL" \in item.flags THEN <<>>
                    ELSE <<item.payload[tid - item.tid + 1]>>)
    ELSE item

NoSnapshot == [type |-> "none"]

\* zsbt_fetch: [T, blk, item, err, bufs]; item is NoItem when nothing (visible)
\* covers tid, and then the leaf is unlocked and released; a found item comes
\* with its leaf locked and pinned
zsbt_fetch(T0, log, xs, oldest, snapshot, tid) ==
    LET Result(d, item, found) ==
            [T |-> d.T, blk |-> IF found THEN d.blk ELSE InvalidBlockNumber,
             item |-> IF found THEN ExtractElement(item, tid) ELSE NoItem,
             err |-> NoError,
             bufs |-> IF found THEN LockedAndPinned(d.blk)
                      ELSE UnlockReleaseBuffer(LockedAndPinned(d.blk), d.blk)]
        OnLeaf(d, item) ==
            Result(d, item,
                   item # NoItem
                   /\ (snapshot = NoSnapshot
                       \/ zs_SatisfiesVisibility(log, xs, oldest, snapshot, item)))
        Descended(d) ==
            IF d.err # NoError \/ d.blk = InvalidBlockNumber
            THEN [T |-> d.T, blk |-> InvalidBlockNumber, item |-> NoItem, err |-> d.err,
                  bufs |-> NoBufs]
            ELSE OnLeaf(d, FindCovering(d.T.pages[d.blk].items, tid))
    IN Descended(zsbt_descend(T0, tid, 0))

\* ---------------------------------------------------------------- insert
\* size of one datum (zsbt_compute_data_size) in header units
DatumSize(isnull) == IF isnull THEN 0 ELSE 1

\* the inner for loop of zsbt_multi_insert: the first j > i that starts a new
\* item; tids are consecutive as they come from one call
RECURSIVE GroupEnd(_, _, _, _)
GroupEnd(isnulls, i, j, datasz) ==
    IF j > Len(isnulls) THEN j
    ELSE IF isnulls[j] # isnulls[i] THEN j
    ELSE IF ~isnulls[i]
    THEN IF datasz + DatumSize(FALSE) < MaxZedStoreDatumSize \div 4 THEN j
         ELSE GroupEnd(isnulls, i, j + 1, datasz + DatumSize(FALSE))
    ELSE GroupEnd(isnulls, i, j + 1, datasz)

\* the datum the caller stores in the row that gets the TID tid
DatumOf(tid) == tid

RECURSIVE CreateItems(_, _, _, _)
CreateItems(isnulls, i, firsttid, undorecptr) ==
    IF i > Len(isnulls) THEN <<>>
    ELSE LET j == GroupEnd(isnulls, i, i + 1, DatumSize(isnulls[i]))
             payload == IF isnulls[i] THEN <<>>
                        ELSE [k \in 1..(j - i) |-> DatumOf(firsttid + i + k - 2)]
         IN <<zsbt_create_item(firsttid + i - 1, undorecptr, j - i, payload, isnulls[i])>>
            \o CreateItems(isnulls, j, firsttid, undorecptr)

\* the inner for loop of zsbt_multi_insert on rows whose datums have the sizes
\* given (zsbt_compute_data_size: 0 for a null) and whose tids the caller
\* passes: the first j > i that starts a new item, and the payload gathered
RECURSIVE GroupEndOfSizes(_, _, _, _, _, _, _)
GroupEndOfSizes(isnulls, tids, sizes, i, j, datasz, maxdatumsize) ==
    IF j > Len(isnulls) THEN [j |-> j, datasz |-> datasz]
    ELSE IF isnulls[j] # isnulls[i] THEN [j |-> j, datasz |-> datasz]
    ELSE IF tids[j] # tids[j - 1] + 1 THEN [j |-> j, datasz |-> datasz]
    ELSE IF ~isnulls[i]
    THEN IF datasz + sizes[j] < maxdatumsize \div 4
         THEN [j |-> j, datasz |-> datasz]
         ELSE GroupEndOfSizes(isnulls, tids, sizes, i, j + 1, datasz + sizes[j],
                              maxdatumsize)
    ELSE GroupEndOfSizes(isnulls, tids, sizes, i, j + 1, datasz, maxdatumsize)

\* the while loop around it: for every item created its first row, the number
\* of its elements and the size of its payload
RECURSIVE CreateItemsOfSizes(_, _, _, _, _)
CreateItemsOfSizes(isnulls, tids, sizes, i, maxdatumsize) ==
    IF i > Len(isnulls) THEN <<>>
    ELSE LET g == GroupEndOfSizes(isnulls, tids, sizes, i, i + 1,
                                  IF isnulls[i] THEN 0 ELSE sizes[i], maxdatumsize)
         IN <<[first |-> i, nelements |-> g.j - i, datasz |-> g.datasz,
               kind |-> IF g.j - i > 1 THEN "array" ELSE "single"]>>
            \o CreateItemsOfSizes(isnulls, tids, sizes, g.j, maxdatumsize)

\* a variant that assigns from the leaf's lokey whatever the leaf holds
AssignedTid_FromLokey(page) == page.lokey

\* the TID zsbt_multi_insert assigns to the first row when the caller passes
\* an invalid TID
AssignedTid(page) ==
    IF page.items # <<>>
    THEN zsbt_item_lasttid(page.items[Len(page.items)]) + 1
    ELSE page.lokey

\* zsbt_multi_insert: [T, log, firsttid, n]
zsbt_multi_insert(T0, log, tid0, isnulls, xid, cid, with_undo, oldest, compressible) ==
    LET assign_tids == tid0 = InvalidZSTid
        insert_target_key == IF assign_tids THEN MaxZSTid ELSE tid0
        n == Len(isnulls)
        undorecptr == IF with_undo THEN zsundo_next_counter(log) ELSE InvalidUndoPtr
        undorec(tid) == UndoRec(ZSUNDO_TYPE_INSERT, xid, cid, tid, tid + n - 1,
                                InvalidUndoPtr, InvalidZSTid, FALSE, 0)
        OnLeaf(d, tid) ==
            [T |-> zsbt_replace_item(d.T, d.blk, InvalidZSTid, <<>>,
                                     CreateItems(isnulls, 1, tid, undorecptr),
                                     oldest, compressible),
             log |-> IF with_undo THEN zsundo_insert(log, undorec(tid)) ELSE log,
             firsttid |-> tid, n |-> n]
        Descended(d) ==
            IF d.err # NoError
            THEN [T |-> RaiseError(d.T, d.err), log |-> log, firsttid |-> InvalidZSTid,
                  n |-> 0]
            ELSE OnLeaf(d, IF assign_tids THEN AssignedTid(d.T.pages[d.blk]) ELSE tid0)
    IN Descended(zsbt_descend(T0, insert_target_key, 0))

\* ---------------------------------------------------------------- row operations
\* Each operation yields [T, log, result, tmfd, bufs]: the tree and the UNDO
\* log after it, what it returns, and the buffers it still holds when it
\* returns or raises; an elog(ERROR) is in T.err.
OpResult(T, log, result, tmfd, bufs) ==
    [T |-> T, log |-> log, result |-> result, tmfd |-> tmfd, bufs |-> bufs]

\* zsbt_replace_item unlocks the buffer, the caller then drops its pin
ReplacedAndReleased(bufs, buf) == ReleaseBuffer(LockBufferUnlock(bufs, buf), buf)

NoTmfd == TMResult("none", TRUE, 0, 0, 0, InvalidZSTid)

zsbt_delete(T0, log, xs, oldest, snapshot, tid, xid, cid, compressible) ==
    LET Checked(f, r) ==
            IF r.result = "ERROR"
            THEN OpResult(RaiseError(f.T, "unexpected UNDO record type"), log, "ERROR", r,
                          f.bufs)
            ELSE IF r.result # TM_Ok
            THEN OpResult(f.T, log, r.result, r, UnlockReleaseBuffer(f.bufs, f.blk))
            ELSE LET keep_old_undo_ptr == r.undo_record_needed
                     undorec == UndoRec(ZSUNDO_TYPE_DELETE, xid, cid, tid, tid,
                                        IF keep_old_undo_ptr THEN f.item.undo
                                        ELSE InvalidUndoPtr,
                                        InvalidZSTid, FALSE, 0)
                     undorecptr == zsundo_next_counter(log)
                     deleteditem == [f.item EXCEPT !.flags = @ \cup {"DELETED"},
                                                   !.undo = undorecptr]
                 IN OpResult(zsbt_replace_item(f.T, f.blk, f.item.tid, <<deleteditem>>,
                                               <<>>, oldest, compressible),
                             zsundo_insert(log, undorec), TM_Ok, r,
                             ReplacedAndReleased(f.bufs, f.blk))
        Fetched(f) ==
            IF f.err # NoError
            THEN OpResult(RaiseError(f.T, f.err), log, "ERROR", NoTmfd, f.bufs)
            ELSE IF f.item = NoItem
            THEN OpResult(RaiseError(f.T, "could not find tuple to delete"), log, "ERROR",
                          NoTmfd, f.bufs)
            ELSE Checked(f, zs_SatisfiesUpdate(log, xs, oldest, snapshot, f.item,
                                               LockTupleExclusive))
    IN Fetched(zsbt_fetch(T0, log, xs, oldest, snapshot, tid))

UpdateLockMode(key_update) ==
    IF key_update THEN LockTupleExclusive ELSE LockTupleNoKeyExclusive

\* zsbt_update_lock_old: only checks, no lock is taken
zsbt_update_lock_old(T0, log, xs, oldest, snapshot, otid, key_update) ==
    LET Checked(f, r) ==
            IF r.result = "ERROR"
            THEN OpResult(RaiseError(f.T, "unexpected UNDO record type"), log, "ERROR", r,
                          f.bufs)
            ELSE OpResult(f.T, log, r.result, r, UnlockReleaseBuffer(f.bufs, f.blk))
        Fetched(f) ==
            IF f.err # NoError
            THEN OpResult(RaiseError(f.T, f.err), log, "ERROR", NoTmfd, f.bufs)
            ELSE IF f.item = NoItem
            THEN OpResult(RaiseError(f.T, "could not find old tuple to update"), log,
                          "ERROR", NoTmfd, f.bufs)
            ELSE Checked(f, zs_SatisfiesUpdate(log, xs, oldest, snapshot, f.item,
                                               UpdateLockMode(key_update)))
    IN Fetched(zsbt_fetch(T0, log, xs, oldest, snapshot, otid))

zsbt_mark_old_updated(T0, log, xs, oldest, snapshot, otid, newtid, xid, cid, key_update, compressible) ==
    LET Checked(f, r) ==
            IF r.result # TM_Ok
            THEN OpResult(RaiseError(f.T, "tuple concurrently updated"), log, "ERROR", r,
                          UnlockReleaseBuffer(f.bufs, f.blk))
            ELSE LET undorec == UndoRec(ZSUNDO_TYPE_UPDATE, xid, cid, otid, otid,
                                        IF r.undo_record_needed THEN f.item.undo
                                        ELSE InvalidUndoPtr,
                                        newtid, key_update, 0)
                     undorecptr == zsundo_next_counter(log)
                     deleteditem == [f.item EXCEPT !.flags = @ \cup {"UPDATED"},
                                                   !.undo = undorecptr]
                 IN OpResult(zsbt_replace_item(f.T, f.blk, otid, <<deleteditem>>, <<>>,
                                               oldest, compressible),
                             zsundo_insert(log, undorec), TM_Ok, r,
                             ReplacedAndReleased(f.bufs, f.blk))
        Fetched(f) ==
            IF f.err # NoError
            THEN OpResult(RaiseError(f.T, f.err), log, "ERROR", NoTmfd, f.bufs)
            ELSE IF f.item = NoItem
            THEN OpResult(RaiseError(f.T, "could not find old tuple to update"), log,
                          "ERROR", NoTmfd, f.bufs)
            ELSE Checked(f, zs_SatisfiesUpdate(log, xs, oldest, snapshot, f.item,
                                               UpdateLockMode(key_update)))
    IN Fetched(zsbt_fetch(T0, log, xs, oldest, snapshot, otid))

\* zsbt_update: [T, log, result, tmfd, bufs, newtid]
zsbt_update(T0, log, xs, oldest, snapshot, otid, newisnull, xid, cid, key_update, compressible) ==
    LET Marked(i, m) ==
            [T |-> m.T, log |-> m.log, result |-> m.result, tmfd |-> m.tmfd,
             bufs |-> m.bufs, newtid |-> i.firsttid]
        Inserted(i) ==
            IF i.T.err # NoError
            THEN [T |-> i.T, log |-> i.log, result |-> "ERROR", tmfd |-> NoTmfd,
                  bufs |-> NoBufs, newtid |-> i.firsttid]
            ELSE Marked(i, zsbt_mark_old_updated(i.T, i.log, xs, oldest, snapshot, otid,
                                                 i.firsttid, xid, cid, key_update,
                                                 compressible))
        Locked(l) ==
            IF l.result # TM_Ok
            THEN [T |-> l.T, log |-> l.log, result |-> l.result, tmfd |-> l.tmfd,
                  bufs |-> l.bufs, newtid |-> InvalidZSTid]
            ELSE Inserted(zsbt_multi_insert(l.T, l.log, InvalidZSTid, <<newisnull>>, xid,
                                            cid, TRUE, oldest, compressible))
    IN Locked(zsbt_update_lock_old(T0, log, xs, oldest, snapshot, otid, key_update))

zsbt_lock_item(T0, log, xs, oldest, snapshot, tid, xid, cid, lockmode, compressible) ==
    LET Checked(f, r) ==
            IF r.result = "ERROR"
            THEN OpResult(RaiseError(f.T, "unexpected UNDO record type"), log, "ERROR", r,
                          f.bufs)
            ELSE IF r.result # TM_Ok
            THEN OpResult(f.T, log, r.result, r, UnlockReleaseBuffer(f.bufs, f.blk))
            ELSE IF "DELETED" \in f.item.flags
            THEN OpResult(RaiseError(f.T, "cannot lock deleted tuple"), log, "ERROR", r,
                          f.bufs)
            ELSE IF "UPDATED" \in f.item.flags
            THEN OpResult(RaiseError(f.T, "cannot lock updated tuple"), log, "ERROR", r,
                          f.bufs)
            ELSE LET undorec == UndoRec(ZSUNDO_TYPE_TUPLE_LOCK, xid, cid, tid, tid,
                                        IF r.undo_record_needed THEN f.item.undo
                                        ELSE InvalidUndoPtr,
                                        InvalidZSTid, FALSE, lockmode)
                     undorecptr == zsundo_next_counter(log)
                     newitem == [f.item EXCEPT !.undo = undorecptr]
                 IN OpResult(zsbt_replace_item(f.T, f.blk, f.item.tid, <<newitem>>, <<>>,
                                               oldest, compressible),
                             zsundo_insert(log, undorec), TM_Ok, r,
                             ReplacedAndReleased(f.bufs, f.blk))
        Fetched(f) ==
            IF f.err # NoError
            THEN OpResult(RaiseError(f.T, f.err), log, "ERROR", NoTmfd, f.bufs)
            ELSE IF f.item = NoItem
            THEN OpResult(RaiseError(f.T, "could not find tuple to lock"), log, "ERROR",
                          NoTmfd, f.bufs)
            ELSE Checked(f, zs_SatisfiesUpdate(log, xs, oldest, snapshot, f.item,
                                               lockmode))
    IN Fetched(zsbt_fetch(T0, log, xs, oldest, snapshot, tid))

\* a variant that removes an item that is dead already
zsbt_mark_item_dead_RemovesDead(T0, log, xs, oldest, tid, undoptr, compressible) ==
    LET Fetched(f) ==
            IF f.err # NoError THEN RaiseError(f.T, f.err)
            ELSE IF f.item = NoItem THEN f.T
            ELSE zsbt_replace_item(f.T, f.blk, tid,
                                   IF "DEAD" \in f.item.flags THEN <<>>
                                   ELSE <<SingleItem(tid, undoptr, {"DEAD"}, <<>>)>>,
                                   <<>>, oldest, compressible)
    IN Fetched(zsbt_fetch(T0, log, xs, oldest, NoSnapshot, tid))

\* the vacuum-time operations return nothing: only the tree changes
zsbt_mark_item_dead(T0, log, xs, oldest, tid, undoptr, compressible) ==
    LET Fetched(f) ==
            IF f.err # NoError THEN RaiseError(f.T, f.err)
            ELSE IF f.item = NoItem THEN f.T
            ELSE IF "DEAD" \in f.item.flags THEN f.T
            ELSE zsbt_replace_item(f.T, f.blk, tid,
                                   <<SingleItem(tid, undoptr, {"DEAD"}, <<>>)>>,
                                   <<>>, oldest, compressible)
    IN Fetched(zsbt_fetch(T0, log, xs, oldest, NoSnapshot, tid))

zsbt_remove_item(T0, log, xs, oldest, tid, compressible) ==
    LET Fetched(f) ==
            IF f.err # NoError THEN RaiseError(f.T, f.err)
            ELSE IF f.item = NoItem THEN f.T
            ELSE zsbt_replace_item(f.T, f.blk, tid, <<>>, <<>>, oldest, compressible)
    IN Fetched(zsbt_fetch(T0, log, xs, oldest, NoSnapshot, tid))

\* a variant that rolls the deletion back whatever the item's UNDO pointer is
zsbt_undo_item_deletion_AnyPointer(T0, log, xs, oldest, tid, undoptr, compressible) ==
    LET Fetched(f) ==
            IF f.err # NoError THEN RaiseError(f.T, f.err)
            ELSE IF f.item = NoItem THEN f.T
            ELSE LET copy == [f.item EXCEPT !.flags = @ \ {"DELETED", "UPDATED"},
                                            !.undo = InvalidUndoPtr]
                 IN zsbt_replace_item(f.T, f.blk, tid, <<copy>>, <<>>, oldest,
                                      compressible)
    IN Fetched(zsbt_fetch(T0, log, xs, oldest, NoSnapshot, tid))

zsbt_undo_item_deletion(T0, log, xs, oldest, tid, undoptr, compressible) ==
    LET Fetched(f) ==
            IF f.err # NoError THEN RaiseError(f.T, f.err)
            ELSE IF f.item = NoItem THEN f.T
            ELSE IF f.item.undo = undoptr
            THEN LET copy == [f.item EXCEPT !.flags = @ \ {"DELETED", "UPDATED"},
                                            !.undo = InvalidUndoPtr]
                 IN zsbt_replace_item(f.T, f.blk, tid, <<copy>>, <<>>, oldest,
                                      compressible)
            ELSE f.T
    IN Fetched(zsbt_fetch(T0, log, xs, oldest, NoSnapshot, tid))

\* zsbt_get_last_tid: [T, tid]
zsbt_get_last_tid(T0) ==
    LET Descended(d) ==
            IF d.err # NoError THEN [T |-> RaiseError(d.T, d.err), tid |-> InvalidZSTid]
            ELSE IF d.blk = InvalidBlockNumber THEN [T |-> d.T, tid |-> MinZSTid]
            ELSE [T |-> d.T, tid |-> AssignedTid(d.T.pages[d.blk])]
    IN Descended(zsbt_descend(T0, MaxZSTid, 0))

\* ---------------------------------------------------------------- scan
\* ZSBtreeScan: decompressed holds the items of the current container that
\* zs_decompress_read_item has not returned yet
NoScan ==
    [active |-> FALSE, snapshot |-> NoSnapshot, nexttid |-> InvalidZSTid,
     endtid |-> InvalidZSTid, lastbuf |-> InvalidBlockNumber,
     has_decompressed |-> FALSE, decompressed |-> <<>>, array_elements_left |-> 0,
     array_isnull |-> FALSE, array_datums |-> <<0>>, array_next_datum |-> 1,
     recent_oldest_undo |-> 0]

\* zsbt_begin_scan: [T, scan, err, bufs]; zsbt_descend hands the leaf over
\* locked and pinned, the lock is dropped and the pin stays in scan.lastbuf
zsbt_begin_scan(T0, oldest, starttid, endtid, snapshot) ==
    LET sc == [NoScan EXCEPT !.snapshot = snapshot, !.nexttid = starttid,
                             !.endtid = endtid]
        Descended(d) ==
            IF d.err # NoError
            THEN [T |-> RaiseError(d.T, d.err), scan |-> sc, err |-> d.err,
                  bufs |-> NoBufs]
            ELSE IF d.blk = InvalidBlockNumber
            THEN [T |-> d.T, scan |-> sc, err |-> NoError, bufs |-> NoBufs]
            ELSE [T |-> d.T,
                  scan |-> [sc EXCEPT !.active = TRUE, !.lastbuf = d.blk,
                                      !.recent_oldest_undo = oldest],
                  err |-> NoError,
                  bufs |-> LockBufferUnlock(LockedAndPinned(d.blk), d.blk)]
    IN Descended(zsbt_descend(T0, starttid, 0))

\* scan->array_datums after nelements datums were written to its start; the
\* array is allocated anew when it is too small
ExpandDatums(array_datums, nelements, datums) ==
    IF nelements > Len(array_datums) THEN datums
    ELSE [k \in 1..Len(array_datums) |->
             IF k <= nelements THEN datums[k] ELSE array_datums[k]]

\* zsbt_scan_extract_array: elements below nexttid are skipped, elements at or
\* past endtid are left out; nexttid itself is not changed
zsbt_scan_extract_array(sc, aitem) ==
    LET skipped == Max(0, Min(aitem.nelements, sc.nexttid - aitem.tid))
        tid == aitem.tid + skipped
        nelements == IF tid + (aitem.nelements - skipped) > sc.endtid
                     THEN sc.endtid - tid
                     ELSE aitem.nelements - skipped
        isnull == "NULL" \in aitem.flags
    IN [sc EXCEPT !.array_elements_left = nelements,
                  !.array_isnull = isnull,
                  !.array_datums =
                      ExpandDatums(@, nelements,
                                   IF isnull THEN [k \in 1..nelements |-> 0]
                                   ELSE SubSeq(aitem.payload, skipped + 1,
                                               skipped + nelements)),
                  !.array_next_datum = 1]

\* the scan after a single item was placed in the array_* fields
ScanSingle(sc, sitem) ==
    [sc EXCEPT !.nexttid = sitem.tid,
               !.array_elements_left = 1,
               !.array_next_datum = 1,
               !.array_isnull = "NULL" \in sitem.flags,
               !.array_datums = IF "NULL" \in sitem.flags THEN @
                                ELSE [@ EXCEPT ![1] = sitem.payload[1]]]

ScanVisible(sc, log, xs, item) ==
    zs_SatisfiesVisibility(log, xs, sc.recent_oldest_undo, sc.snapshot, item)

\* the for loop over the items of the page, entered with the page locked; how
\* is "return" when a single item was found, "done" when the loop ended or
\* was left with break; bufs are the buffers held then
RECURSIVE ScanPageLoop(_, _, _, _, _)
ScanPageLoop(sc, items, log, xs, bufs) ==
    IF items = <<>> THEN [scan |-> sc, how |-> "done", bufs |-> bufs]
    ELSE LET item == Head(items)
             lasttid == zsbt_item_lasttid(item)
         IN
         IF sc.nexttid > lasttid THEN ScanPageLoop(sc, Tail(items), log, xs, bufs)
         ELSE IF item.tid >= sc.endtid
         THEN [scan |-> [sc EXCEPT !.nexttid = sc.endtid], how |-> "done", bufs |-> bufs]
         ELSE IF item.kind = "compressed"
         THEN [scan |-> [sc EXCEPT !.has_decompressed = TRUE,
                                   !.decompressed = zs_decompress(item)],
               how |-> "done", bufs |-> LockBufferUnlock(bufs, sc.lastbuf)]
         ELSE IF ~ScanVisible(sc, log, xs, item)
         THEN ScanPageLoop([sc EXCEPT !.nexttid = lasttid + 1], Tail(items), log, xs, bufs)
         ELSE IF item.kind = "array"
         THEN LET Extracted(sc2) ==
                      IF sc2.array_elements_left > 0
                      THEN [scan |-> sc2, how |-> "done",
                            bufs |-> LockBufferUnlock(bufs, sc.lastbuf)]
                      ELSE ScanPageLoop(sc2, Tail(items), log, xs, bufs)
              IN Extracted(zsbt_scan_extract_array(sc, item))
         ELSE [scan |-> ScanSingle(sc, item),
               how |-> "return", bufs |-> LockBufferUnlock(bufs, sc.lastbuf)]

ScanReturn(sc, found, err, bufs) == [scan |-> sc, found |-> found, err |-> err, bufs |-> bufs]

\* the while loop of zsbt_scan_next; buf_is_locked is lastbuf \in bufs.locked
RECURSIVE ScanNextLoop(_, _, _, _, _)
ScanNextLoop(sc, pages, log, xs, bufs) ==
    IF ~(sc.nexttid < sc.endtid) THEN ScanReturn(sc, FALSE, NoError, bufs)
    ELSE IF sc.array_elements_left > 0 THEN ScanReturn(sc, TRUE, NoError, bufs)
    ELSE IF sc.has_decompressed
    THEN IF sc.decompressed = <<>>
         THEN ScanNextLoop([sc EXCEPT !.has_decompressed = FALSE], pages, log, xs, bufs)
         ELSE LET uitem == Head(sc.decompressed)
                  lasttid == zsbt_item_lasttid(uitem)
                  sc1 == [sc EXCEPT !.decompressed = Tail(@)]
              IN
              IF lasttid < sc.nexttid THEN ScanNextLoop(sc1, pages, log, xs, bufs)
              ELSE IF uitem.tid >= sc.endtid THEN ScanReturn(sc1, FALSE, NoError, bufs)
              ELSE IF ~ScanVisible(sc, log, xs, uitem)
              THEN ScanNextLoop([sc1 EXCEPT !.nexttid = lasttid + 1], pages, log, xs, bufs)
              ELSE IF uitem.kind = "array"
              THEN ScanNextLoop(zsbt_scan_extract_array(sc1, uitem), pages, log, xs, bufs)
              ELSE ScanReturn(ScanSingle(sc1, uitem), TRUE, NoError,
                              IF sc.lastbuf \in bufs.locked
                              THEN LockBufferUnlock(bufs, sc.lastbuf) ELSE bufs)
    ELSE LET page == pages[sc.lastbuf]
             next == page.next
             Walk(r, unlocked) ==
                 IF next = InvalidBlockNumber \/ r.scan.nexttid >= r.scan.endtid
                 THEN ScanReturn([r.scan EXCEPT !.active = FALSE,
                                                !.array_elements_left = 0,
                                                !.lastbuf = InvalidBlockNumber],
                                 FALSE, NoError, ReleaseBuffer(unlocked, sc.lastbuf))
                 ELSE ScanNextLoop([r.scan EXCEPT !.lastbuf = next], pages, log, xs,
                                   ReleaseAndReadBuffer(unlocked, sc.lastbuf, next))
             PageDone(r) ==
                 IF r.how = "return" THEN ScanReturn(r.scan, TRUE, NoError, r.bufs)
                 ELSE IF r.scan.array_elements_left > 0 \/ r.scan.has_decompressed
                 THEN ScanNextLoop(r.scan, pages, log, xs, r.bufs)
                 ELSE IF next = sc.lastbuf
                 THEN ScanReturn(r.scan, FALSE, "next-pointer points to itself", r.bufs)
                 ELSE Walk(r, LockBufferUnlock(r.bufs, sc.lastbuf))
         IN PageDone(ScanPageLoop(sc, page.items, log, xs,
                                  IF sc.lastbuf \in bufs.locked THEN bufs
                                  ELSE LockBufferShare(bufs, sc.lastbuf)))

\* the pin the scan keeps in scan.lastbuf between calls
ScanPin(sc) ==
    Bufs({}, IF sc.lastbuf = InvalidBlockNumber THEN {} ELSE {sc.lastbuf})

zsbt_scan_next(sc, pages, log, xs) ==
    IF ~sc.active THEN ScanReturn(sc, FALSE, NoError, ScanPin(sc))
    ELSE ScanNextLoop(sc, pages, log, xs, ScanPin(sc))

\* zsbt_scan_next_tid: [scan, tid, err, bufs]
zsbt_scan_next_tid(sc, pages, log, xs) ==
    IF ~sc.active
    THEN [scan |-> sc, tid |-> InvalidZSTid, err |-> NoError, bufs |-> ScanPin(sc)]
    ELSE IF sc.array_elements_left > 0
    THEN [scan |-> [sc EXCEPT !.nexttid = @ + 1, !.array_elements_left = @ - 1],
          tid |-> sc.nexttid, err |-> NoError, bufs |-> ScanPin(sc)]
    ELSE LET Returned(r) ==
                 IF r.found
                 THEN [scan |-> [r.scan EXCEPT !.nexttid = @ + 1,
                                               !.array_elements_left = @ - 1],
                       tid |-> r.scan.nexttid, err |-> r.err, bufs |-> r.bufs]
                 ELSE [scan |-> r.scan, tid |-> InvalidZSTid, err |-> r.err,
                       bufs |-> r.bufs]
         IN Returned(zsbt_scan_next(sc, pages, log, xs))

\* zsbt_scan_skip: the scan moved forward to tid
zsbt_scan_skip(sc, tid) ==
    IF tid > sc.nexttid
    THEN IF sc.array_elements_left > 0
         THEN LET skip == tid - sc.nexttid - 1 IN
              IF skip < sc.array_elements_left
              THEN [sc EXCEPT !.array_next_datum = @ + skip,
                              !.array_elements_left = @ - skip,
                              !.nexttid = tid]
              ELSE [sc EXCEPT !.array_elements_left = 0, !.nexttid = tid]
         ELSE [sc EXCEPT !.nexttid = tid]
    ELSE sc

FetchReturn(sc, found, isnull, datum, err, bufs) ==
    [scan |-> sc, found |-> found, isnull |-> isnull, datum |-> datum, err |-> err,
     bufs |-> bufs]

\* the do-while loop of zsbt_scan_next_fetch; reading past the end of
\* array_datums gives a datum of no row
RECURSIVE FetchLoop(_, _, _, _, _, _)
FetchLoop(sc, tid, pages, log, xs, bufs) ==
    IF tid < sc.nexttid THEN FetchReturn(sc, FALSE, FALSE, 0, NoError, bufs)
    ELSE IF sc.array_elements_left > 0
    THEN FetchReturn([sc EXCEPT !.array_next_datum = @ + 1, !.nexttid = @ + 1,
                                !.array_elements_left = @ - 1],
                     TRUE, sc.array_isnull,
                     IF sc.array_next_datum \in DOMAIN sc.array_datums
                     THEN sc.array_datums[sc.array_next_datum] ELSE 0,
                     NoError, bufs)
    ELSE LET Advanced(r) ==
                 IF r.err # NoError \/ ~r.found
                 THEN FetchReturn(r.scan, FALSE, FALSE, 0, r.err, r.bufs)
                 ELSE FetchLoop(r.scan, tid, pages, log, xs, r.bufs)
         IN Advanced(zsbt_scan_next(sc, pages, log, xs))

\* zsbt_scan_next_fetch: [scan, found, isnull, datum, err, bufs]
zsbt_scan_next_fetch(sc, tid, pages, log, xs) ==
    IF ~sc.active THEN FetchReturn(sc, FALSE, FALSE, 0, NoError, ScanPin(sc))
    ELSE FetchLoop(zsbt_scan_skip(sc, tid), tid, pages, log, xs, ScanPin(sc))

\* ---------------------------------------------------------------- metapage
\* The metapage as zsmeta_* see it: natts is the number of attributes of the
\* table in the catalog, nblocks the size of the relation, nattributes and
\* tree_root_dir the ZSMetaPage on block 0. The directory has room for MaxAtts
\* entries; the entries past them stand for the bytes of the page that follow
\* the room of the directory, and overrun tells that they were written.
ZeroDirItem == [root |-> 0, initialized |-> FALSE]
FreshDirItem == [root |-> InvalidBlockNumber, initialized |-> TRUE]

Metapage(natts, nblocks, nattributes, dir, overrun) ==
    [natts |-> natts, nblocks |-> nblocks, nattributes |-> nattributes,
     tree_root_dir |-> dir, overrun |-> overrun]

NoMetapage == Metapage(0, 0, 0, <<>>, FALSE)

\* PageInit: a zeroed page
ZeroedDir == [i \in 1..MaxAtts |-> ZeroDirItem]

\* [M, err]
MetaResult(M, err) == [M |-> M, err |-> err]

\* zsmeta_initmetapage for a table of M.natts attributes
zsmeta_initmetapage(M) ==
    IF M.natts = 0
    THEN MetaResult(M, "tables with zero columns not supported in zedstore")
    ELSE IF M.nblocks # 0 THEN MetaResult(M, "index is not empty")
    ELSE IF M.natts > MaxAtts
    THEN MetaResult(Metapage(M.natts, 1, 0, ZeroedDir, FALSE),
                    "too many attributes for zedstore")
    ELSE MetaResult(Metapage(M.natts, 1, M.natts,
                             [i \in 1..MaxAtts |->
                                 IF i <= M.natts THEN FreshDirItem ELSE ZeroDirItem],
                             FALSE),
                    NoError)

\* zsmeta_add_root_for_attribute: the entry of attribute att is written, and
\* the count goes up by one
zsmeta_add_root_for_attribute(M, att) ==
    MetaResult([M EXCEPT !.nattributes = @ + 1,
                         !.tree_root_dir = IF att \in DOMAIN @
                                           THEN [@ EXCEPT ![att] = FreshDirItem] ELSE @,
                         !.overrun = @ \/ att > MaxAtts],
               NoError)

\* [M, rootblk, err]
RootResult(M, blk, err) == [M |-> M, rootblk |-> blk, err |-> err]

\* zsmeta_get_root_for_attribute on the metapage: [M, rootblk, err]
MetaGetRootForAttribute(M0, att, forupdate, atthasmissing) ==
    LET Looked(M) ==
            LET rootblk == IF att \in DOMAIN M.tree_root_dir
                           THEN M.tree_root_dir[att].root ELSE 0
            IN IF forupdate /\ rootblk = InvalidBlockNumber
               THEN RootResult([M EXCEPT !.nblocks = @ + 1,
                                         !.tree_root_dir[att].root = M.nblocks],
                               M.nblocks, NoError)
               ELSE RootResult(M, rootblk, NoError)
        Added(r) == IF r.err # NoError THEN RootResult(r.M, InvalidBlockNumber, r.err)
                    ELSE Looked(r.M)
        OnPage(M) ==
            IF att <= 0 THEN RootResult(M, InvalidBlockNumber, "invalid attribute number")
            ELSE IF att > M.nattributes
            THEN IF forupdate THEN Added(zsmeta_add_root_for_attribute(M, att))
                 ELSE IF atthasmissing THEN RootResult(M, InvalidBlockNumber, NoError)
                 ELSE RootResult(M, InvalidBlockNumber, "invalid attribute number")
            ELSE Looked(M)
        Inited(r) == IF r.err # NoError THEN RootResult(r.M, InvalidBlockNumber, r.err)
                     ELSE OnPage(r.M)
    IN IF M0.nblocks = 0
       THEN IF ~forupdate THEN RootResult(M0, InvalidBlockNumber, NoError)
            ELSE Inited(zsmeta_initmetapage(M0))
       ELSE OnPage(M0)

\* ---------------------------------------------------------------- state
VARIABLES
    attno,       \* the attribute whose tree this is; 0 is the meta-attribute
    pages,       \* the tree pages of the attribute; block number = index
    rootblk,     \* metapage root directory entry of the attribute
    undolog,     \* UNDO records, addressed by counter 1..Len(undolog)
    oldestundo,  \* metapage zs_undo_oldestptr.counter
    xstatus,     \* transaction id -> "inprogress", "committed", "aborted"
    curcid,      \* transaction id -> its current command id
    allvisible,  \* committed transactions that no snapshot holds in progress
    scan,        \* the ZSBtreeScan of the scanning backend
    scanargs,    \* the (starttid, endtid) the scan was begun with
    scanout,     \* TIDs the scan has returned so far
    lastop,      \* the last operation, its arguments and its result
    nrows,       \* rows passed to zsbt_multi_insert with invalid TIDs so far
    backend,     \* backend -> where it is in zsbt_descend or in a page split
    buflocks,    \* block number -> the backends holding the buffer's lock
    metapg       \* the metapage: the root directory and the relation it is in

vars == <<attno, pages, rootblk, undolog, oldestundo, xstatus, curcid, allvisible,
          scan, scanargs, scanout, lastop, nrows, backend, buflocks, metapg>>

treevars == <<attno, pages, rootblk>>
concvars == <<backend, buflocks>>
histvars == <<nrows, concvars, metapg>>
scanvars == <<scan, scanargs, scanout>>
xactvars == <<xstatus, curcid, allvisible>>

CurTree == Tree(pages, rootblk, NoError)

Op(op, xid, tid, n, result) ==
    [op |-> op, xid |-> xid, tid |-> tid, n |-> n, result |-> result]

\* what zsbt_delete, zsbt_update and zsbt_lock_item hand back: the result and
\* the TM_FailureData the call has filled (nothing is filled on an ERROR)
RowOp(op, xid, tid, n, r) ==
    [op |-> op, xid |-> xid, tid |-> tid, n |-> n,
     result |-> IF r.T.err = NoError THEN r.result ELSE "ERROR",
     detected |-> r.tmfd.result,
     bufs |-> r.bufs,
     tmfd |-> IF r.T.err = NoError
              THEN [ctid |-> r.tmfd.ctid, xmax |-> r.tmfd.xmax, cmax |-> r.tmfd.cmax]
              ELSE [ctid |-> 0, xmax |-> 0, cmax |-> 0]]

\* what zsbt_begin_scan and zsbt_scan_next_tid leave: the result and the
\* buffers the scan holds when the call returns
ScanOp(op, xid, tid, n, r) ==
    [op |-> op, xid |-> xid, tid |-> tid, n |-> n,
     result |-> IF r.err = NoError THEN "ok" ELSE "ERROR", bufs |-> r.bufs]

\* a backend that is in no tree operation
Idle == [pc |-> "idle"]

NoScanArgs == [starttid |-> InvalidZSTid, endtid |-> InvalidZSTid]

\* a relation without trees, an empty UNDO log, and the transactions xids
InitWith(xids) ==
    /\ attno \in {ZS_META_ATTRIBUTE_NUM, 1}
    /\ backend = [b \in Backends |-> Idle]
    /\ buflocks = <<>>
    /\ metapg = NoMetapage
    /\ pages = <<>>
    /\ rootblk = InvalidBlockNumber
    /\ undolog = <<>>
    /\ oldestundo = 1
    /\ xstatus = [x \in xids |-> "inprogress"]
    /\ curcid = [x \in xids |-> 0]
    /\ allvisible = {}
    /\ scan = NoScan
    /\ scanargs = NoScanArgs
    /\ scanout = <<>>
    /\ lastop = Op("init", 0, InvalidZSTid, 0, "none")
    /\ nrows = 0

Init == InitWith(Xids)

\* no scan is open: the row operations below run between scans
NoScanOpen == scanargs = NoScanArgs

InProgress(x) == xstatus[x] = "inprogress"

IsMeta == attno = ZS_META_ATTRIBUTE_NUM

\* the xip sets a snapshot of transaction xid can have now
ValidXips(xid) ==
    {S \in SUBSET (DOMAIN xstatus \ {xid}) :
        /\ \A x \in DOMAIN xstatus \ {xid} : InProgress(x) => x \in S
        /\ S \cap allvisible = {}}

OpSnapshot(xid, xip) == Snapshot("MVCC", xid, curcid[xid], xip, 0)

\* an elog(ERROR) aborts the transaction that ran the operation
AfterError(T, xid) ==
    IF T.err # NoError
    THEN /\ xstatus' = [xstatus EXCEPT ![xid] = "aborted"]
         /\ curcid' = [curcid EXCEPT ![xid] = 0]
    ELSE UNCHANGED <<xstatus, curcid>>

\* the tree an operation leaves behind is stored; the relation can be
\* extended to MaxBlocks blocks
StoreTree(T) ==
    /\ Len(T.pages) <= MaxBlocks
    /\ pages' = T.pages
    /\ rootblk' = T.rootblk
    /\ UNCHANGED attno

IsnullSeqs == UNION {[1..n -> BOOLEAN] : n \in 1..MaxBatch}

\* rows of the meta-attribute have no datum and come with an UNDO record
MultiInsert(xid, isnulls, compressible) ==
    /\ NoScanOpen
    /\ InProgress(xid)
    /\ IsMeta => Len(undolog) < MaxUndoLog /\ \A i \in DOMAIN isnulls : isnulls[i]
    /\ LET Returns(r) ==
               /\ r.firsttid + r.n - 1 <= MaxZSTid
               /\ StoreTree(r.T)
               /\ undolog' = r.log
               /\ AfterError(r.T, xid)
               /\ lastop' = Op("insert", xid, r.firsttid, r.n,
                               IF r.T.err = NoError THEN "ok" ELSE "ERROR")
       IN Returns(zsbt_multi_insert(CurTree, undolog, InvalidZSTid, isnulls, xid,
                                    curcid[xid], IsMeta, oldestundo, compressible))
    /\ nrows + Len(isnulls) <= MaxRows
    /\ nrows' = nrows + Len(isnulls)
    /\ UNCHANGED <<concvars, metapg, oldestundo, allvisible, scanvars>>

Delete(xid, tid, xip, compressible) ==
    /\ NoScanOpen
    /\ IsMeta
    /\ InProgress(xid)
    /\ Len(undolog) < MaxUndoLog
    /\ LET Returns(r) ==
               /\ StoreTree(r.T)
               /\ undolog' = r.log
               /\ AfterError(r.T, xid)
               /\ lastop' = RowOp("delete", xid, tid, 1, r)
       IN Returns(zsbt_delete(CurTree, undolog, xstatus, oldestundo,
                              OpSnapshot(xid, xip), tid, xid, curcid[xid], compressible))
    /\ UNCHANGED <<histvars, oldestundo, allvisible, scanvars>>

Update(xid, otid, newisnull, key_update, xip, compressible) ==
    /\ NoScanOpen
    /\ IsMeta
    /\ newisnull
    /\ InProgress(xid)
    /\ Len(undolog) + 2 <= MaxUndoLog
    /\ LET Returns(r) ==
               /\ r.newtid <= MaxZSTid
               /\ StoreTree(r.T)
               /\ undolog' = r.log
               /\ AfterError(r.T, xid)
               /\ lastop' = RowOp("update", xid, otid, r.newtid, r)
               /\ nrows' = IF r.newtid = InvalidZSTid THEN nrows ELSE nrows + 1
       IN Returns(zsbt_update(CurTree, undolog, xstatus, oldestundo,
                              OpSnapshot(xid, xip), otid, newisnull, xid, curcid[xid],
                              key_update, compressible))
    /\ nrows < MaxRows
    /\ UNCHANGED <<concvars, metapg, oldestundo, allvisible, scanvars>>

LockItem(xid, tid, lockmode, xip, compressible) ==
    /\ NoScanOpen
    /\ IsMeta
    /\ InProgress(xid)
    /\ Len(undolog) < MaxUndoLog
    /\ LET Returns(r) ==
               /\ StoreTree(r.T)
               /\ undolog' = r.log
               /\ AfterError(r.T, xid)
               /\ lastop' = RowOp("lock", xid, tid, lockmode, r)
       IN Returns(zsbt_lock_item(CurTree, undolog, xstatus, oldestundo,
                                 OpSnapshot(xid, xip), tid, xid, curcid[xid], lockmode,
                                 compressible))
    /\ UNCHANGED <<histvars, oldestundo, allvisible, scanvars>>

\* zsbt_update runs in three steps, zsbt_update_lock_old, zsbt_multi_insert and
\* zsbt_mark_old_updated; it holds no lock between them, so that other backends
\* run in between. backend[b] is where backend b is in its zsbt_update.
Updating(xid) == \E b \in Backends : backend[b] # Idle /\ backend[b].xid = xid

InUpdate(pc, xid, otid, key_update, snapshot, newtid) ==
    [pc |-> pc, xid |-> xid, otid |-> otid, key_update |-> key_update,
     snapshot |-> snapshot, newtid |-> newtid]

UpdateLockOld(b, xid, otid, key_update, xip) ==
    /\ NoScanOpen
    /\ IsMeta
    /\ InProgress(xid)
    /\ backend[b] = Idle
    /\ ~Updating(xid)
    /\ Len(undolog) + 2 <= MaxUndoLog
    /\ nrows < MaxRows
    /\ LET Returns(r) ==
               /\ StoreTree(r.T)
               /\ undolog' = r.log
               /\ AfterError(r.T, xid)
               /\ IF r.T.err = NoError /\ r.result = TM_Ok
                  THEN /\ backend' = [backend EXCEPT ![b] =
                                         InUpdate("insert_new", xid, otid, key_update,
                                                  OpSnapshot(xid, xip), InvalidZSTid)]
                       /\ lastop' = Op("update_lock_old", xid, otid, 0, TM_Ok)
                  ELSE /\ backend' = backend
                       /\ lastop' = RowOp("update", xid, otid, InvalidZSTid, r)
       IN Returns(zsbt_update_lock_old(CurTree, undolog, xstatus, oldestundo,
                                       OpSnapshot(xid, xip), otid, key_update))
    /\ UNCHANGED <<nrows, buflocks, metapg, oldestundo, allvisible, scanvars>>

UpdateInsertNew(b) ==
    /\ backend[b] # Idle
    /\ backend[b].pc = "insert_new"
    /\ LET u == backend[b]
           Returns(i) ==
               /\ i.firsttid <= MaxZSTid
               /\ StoreTree(i.T)
               /\ undolog' = i.log
               /\ AfterError(i.T, u.xid)
               /\ IF i.T.err = NoError
                  THEN /\ backend' = [backend EXCEPT ![b] =
                                         InUpdate("mark_old", u.xid, u.otid, u.key_update,
                                                  u.snapshot, i.firsttid)]
                       /\ lastop' = Op("update_insert_new", u.xid, i.firsttid, 1, "ok")
                  ELSE /\ backend' = [backend EXCEPT ![b] = Idle]
                       /\ lastop' = RowOp("update", u.xid, u.otid, i.firsttid,
                                          OpResult(i.T, i.log, "ERROR", NoTmfd, NoBufs))
       IN Returns(zsbt_multi_insert(CurTree, undolog, InvalidZSTid, <<TRUE>>, u.xid,
                                    curcid[u.xid], TRUE, oldestundo, FALSE))
    /\ nrows' = nrows + 1
    /\ UNCHANGED <<buflocks, metapg, oldestundo, allvisible, scanvars>>

UpdateMarkOld(b) ==
    /\ backend[b] # Idle
    /\ backend[b].pc = "mark_old"
    /\ LET u == backend[b]
           Returns(r) ==
               /\ StoreTree(r.T)
               /\ undolog' = r.log
               /\ AfterError(r.T, u.xid)
               /\ lastop' = RowOp("update", u.xid, u.otid, u.newtid, r)
       IN Returns(zsbt_mark_old_updated(CurTree, undolog, xstatus, oldestundo,
                                        u.snapshot, u.otid, u.newtid, u.xid,
                                        curcid[u.xid], u.key_update, FALSE))
    /\ backend' = [backend EXCEPT ![b] = Idle]
    /\ UNCHANGED <<nrows, buflocks, metapg, oldestundo, allvisible, scanvars>>

\* ---------------------------------------------------------------- descent, step by step
\* zsbt_descend of one backend while other backends change the tree: the
\* backend is at "visit" before ReadBuffer / LockBuffer of the block next, at
\* "release" before the UnlockReleaseBuffer(buf) that ends an iteration, and
\* at "returned" when the routine has handed buf to its caller. via tells
\* how next was found: from the root directory, a downlink, a right-link, or
\* by a restart.
InDescend(pc, key, level, next, nextlevel, failblk, buf, via) ==
    [pc |-> pc, key |-> key, level |-> level, next |-> next, nextlevel |-> nextlevel,
     failblk |-> failblk, buf |-> buf, via |-> via]

Descending(b) == backend[b] # Idle /\ backend[b].pc \in {"visit", "release", "returned"}

\* the blocks whose buffer lock backend b holds
HeldBy(locks, b) == {blk \in DOMAIN locks : locks[blk] = b}

LockBufferExclusive(locks, blk, b) ==
    [x \in DOMAIN locks \cup {blk} |-> IF x = blk THEN b ELSE locks[x]]

\* a variant that leaves the lock in place
UnlockBuffer_KeepsLock(locks, blk) == locks

UnlockBuffer(locks, blk) == [x \in DOMAIN locks \ {blk} |-> locks[x]]

\* elog(ERROR): the abort of the transaction releases the locks of the backend
LWLockReleaseAll(locks, b) == [x \in DOMAIN locks \ HeldBy(locks, b) |-> locks[x]]

DescendOp(op, b, d, result, locks) ==
    [op |-> op, xid |-> b, tid |-> d.key, n |-> d.next, result |-> result,
     held |-> HeldBy(locks, b), failblk |-> d.failblk]

\* zsbt_descend is entered: the root is read from the root directory
DescendBegin(b, key, level) ==
    /\ backend[b] = Idle
    /\ rootblk # InvalidBlockNumber
    /\ level <= pages[rootblk].level
    /\ backend' = [backend EXCEPT ![b] =
                       InDescend("visit", key, level, rootblk, 0 - 1,
                                 InvalidBlockNumber, InvalidBlockNumber, "root")]
    /\ lastop' = DescendOp("descend_begin", b,
                           InDescend("visit", key, level, rootblk, 0 - 1,
                                     InvalidBlockNumber, InvalidBlockNumber, "root"),
                           "ok", buflocks)
    /\ UNCHANGED <<treevars, undolog, oldestundo, xactvars, scanvars, nrows, buflocks,
                   metapg>>

\* one iteration of the for loop up to its last statement: the block next is
\* read and locked and the page is looked at
DescendVisit(b) ==
    /\ backend[b] # Idle
    /\ backend[b].pc = "visit"
    /\ LET d == backend[b]
           page == pages[d.next]
           lvl == IF d.nextlevel = 0 - 1 THEN page.level ELSE d.nextlevel
           locked == LockBufferExclusive(buflocks, d.next, b)
           Raise(locks) ==
               /\ backend' = [backend EXCEPT ![b] = Idle]
               /\ buflocks' = LWLockReleaseAll(locks, b)
               /\ lastop' = DescendOp("descend", b, d, "ERROR",
                                      LWLockReleaseAll(locks, b))
           Goes(pc, next, nextlevel, failblk, via) ==
               /\ backend' = [backend EXCEPT ![b] =
                                  InDescend(pc, d.key, d.level, next, nextlevel, failblk,
                                            d.next, via)]
               /\ buflocks' = locked
               /\ lastop' = DescendOp("descend", b,
                                      InDescend(pc, d.key, d.level, next, nextlevel,
                                                failblk, d.next, via),
                                      via, locked)
       IN
       IF d.next = d.failblk THEN Raise(buflocks)
       ELSE /\ d.next \notin DOMAIN buflocks
            /\ IF page.level # lvl THEN Raise(locked)
               ELSE IF d.key >= page.hikey
               THEN IF page.followright
                    THEN Goes("release", page.next, lvl, d.failblk, "right")
                    ELSE Goes("visit", rootblk, lvl, d.next, "restart")
               ELSE IF page.level = d.level
               THEN Goes("returned", d.next, lvl, d.failblk, "found")
               ELSE LET itemno == zsbt_binsrch_internal(d.key, page.downlinks) IN
                    IF itemno < 0 THEN Raise(locked)
                    ELSE Goes("release", page.downlinks[itemno + 1].childblk, lvl - 1,
                              d.failblk, "down")
    /\ UNCHANGED <<treevars, undolog, oldestundo, xactvars, scanvars, nrows, metapg>>

\* a variant that keeps the lock of the page when it goes on to the next one
DescendRelease_KeepsLock(b) ==
    /\ backend[b] # Idle
    /\ backend[b].pc = "release"
    /\ buflocks' = buflocks
    /\ backend' = [backend EXCEPT ![b].pc = "visit"]
    /\ lastop' = DescendOp("descend_release", b, backend[b], "ok", buflocks)
    /\ UNCHANGED <<treevars, undolog, oldestundo, xactvars, scanvars, nrows, metapg>>

\* the UnlockReleaseBuffer(buf) that ends an iteration
DescendRelease(b) ==
    /\ backend[b] # Idle
    /\ backend[b].pc = "release"
    /\ buflocks' = UnlockBuffer(buflocks, backend[b].buf)
    /\ backend' = [backend EXCEPT ![b].pc = "visit"]
    /\ lastop' = DescendOp("descend_release", b, backend[b], "ok",
                           UnlockBuffer(buflocks, backend[b].buf))
    /\ UNCHANGED <<treevars, undolog, oldestundo, xactvars, scanvars, nrows, metapg>>

\* the caller of zsbt_descend is done with the page and unlocks it
CallerReleases(b) ==
    /\ backend[b] # Idle
    /\ backend[b].pc = "returned"
    /\ buflocks' = UnlockBuffer(buflocks, backend[b].buf)
    /\ backend' = [backend EXCEPT ![b] = Idle]
    /\ lastop' = DescendOp("caller_release", b, backend[b], "ok",
                           UnlockBuffer(buflocks, backend[b].buf))
    /\ UNCHANGED <<treevars, undolog, oldestundo, xactvars, scanvars, nrows, metapg>>

RECURSIVE AllItems(_)
AllItems(items) ==
    IF items = <<>> THEN <<>>
    ELSE (IF Head(items).kind = "compressed" THEN Head(items).contents
          ELSE <<Head(items)>>) \o AllItems(Tail(items))

\* vacuum works through the UNDO records that are not trimmed yet, from the
\* oldest one on: the records that are about tid
RecordsAbout(tid) ==
    {ptr \in oldestundo..Len(undolog) :
        undolog[ptr].tid <= tid /\ tid <= undolog[ptr].endtid}

\* vacuum marks dead the rows of an aborted insert and the rows deleted or
\* updated by a transaction that everyone sees
VacuumFindsDead(ptr) ==
    LET rec == undolog[ptr] IN
    \/ rec.type = ZSUNDO_TYPE_INSERT /\ xstatus[rec.xid] = "aborted"
    \/ rec.type \in {ZSUNDO_TYPE_DELETE, ZSUNDO_TYPE_UPDATE} /\ rec.xid \in allvisible

\* vacuum rolls back the deletions and updates of aborted transactions
VacuumRollsBack(ptr) ==
    LET rec == undolog[ptr] IN
    rec.type \in {ZSUNDO_TYPE_DELETE, ZSUNDO_TYPE_UPDATE} /\ xstatus[rec.xid] = "aborted"

\* vacuum removes the rows it has marked dead
VacuumRemoves(tid) ==
    \E b \in DOMAIN pages :
        LET its == AllItems(pages[b].items) IN
        \E k \in DOMAIN its :
            /\ its[k].tid <= tid /\ tid <= zsbt_item_lasttid(its[k])
            /\ "DEAD" \in its[k].flags

MarkItemDead(tid, undoptr, compressible) ==
    /\ NoScanOpen
    /\ IsMeta
    /\ undoptr \in RecordsAbout(tid)
    /\ VacuumFindsDead(undoptr)
    /\ LET Returns(T) ==
               /\ StoreTree(T)
               /\ lastop' = Op("mark_dead", 0, tid, undoptr,
                               IF T.err = NoError THEN "ok" ELSE "ERROR")
       IN Returns(zsbt_mark_item_dead(CurTree, undolog, xstatus, oldestundo, tid,
                                      undoptr, compressible))
    /\ UNCHANGED <<histvars, undolog, oldestundo, xactvars, scanvars>>

RemoveItem(tid, compressible) ==
    /\ NoScanOpen
    /\ VacuumRemoves(tid)
    /\ LET Returns(T) ==
               /\ StoreTree(T)
               /\ lastop' = Op("remove", 0, tid, 0,
                               IF T.err = NoError THEN "ok" ELSE "ERROR")
       IN Returns(zsbt_remove_item(CurTree, undolog, xstatus, oldestundo, tid,
                                   compressible))
    /\ UNCHANGED <<histvars, undolog, oldestundo, xactvars, scanvars>>

UndoItemDeletion(tid, undoptr, compressible) ==
    /\ NoScanOpen
    /\ IsMeta
    /\ undoptr \in RecordsAbout(tid)
    /\ VacuumRollsBack(undoptr)
    /\ LET Returns(T) ==
               /\ StoreTree(T)
               /\ lastop' = Op("undo_deletion", 0, tid, undoptr,
                               IF T.err = NoError THEN "ok" ELSE "ERROR")
       IN Returns(zsbt_undo_item_deletion(CurTree, undolog, xstatus, oldestundo, tid,
                                          undoptr, compressible))
    /\ UNCHANGED <<histvars, undolog, oldestundo, xactvars, scanvars>>

GetLastTid ==
    /\ NoScanOpen
    /\ LET Returns(r) ==
               /\ StoreTree(r.T)
               /\ lastop' = Op("get_last_tid", 0, r.tid, 0,
                               IF r.T.err = NoError THEN "ok" ELSE "ERROR")
       IN Returns(zsbt_get_last_tid(CurTree))
    /\ UNCHANGED <<histvars, undolog, oldestundo, xactvars, scanvars>>

\* ---------------------------------------------------------------- transactions
Commit(xid) ==
    /\ NoScanOpen
    /\ InProgress(xid)
    /\ xstatus' = [xstatus EXCEPT ![xid] = "committed"]
    /\ curcid' = [curcid EXCEPT ![xid] = 0]
    /\ lastop' = Op("commit", xid, InvalidZSTid, 0, "ok")
    /\ UNCHANGED <<histvars, treevars, undolog, oldestundo, allvisible, scanvars>>

Abort(xid) ==
    /\ NoScanOpen
    /\ InProgress(xid)
    /\ xstatus' = [xstatus EXCEPT ![xid] = "aborted"]
    /\ curcid' = [curcid EXCEPT ![xid] = 0]
    /\ lastop' = Op("abort", xid, InvalidZSTid, 0, "ok")
    /\ UNCHANGED <<histvars, treevars, undolog, oldestundo, allvisible, scanvars>>

CommandCounterIncrement(xid) ==
    /\ NoScanOpen
    /\ InProgress(xid)
    /\ curcid[xid] < MaxCid
    /\ curcid' = [curcid EXCEPT ![xid] = @ + 1]
    /\ lastop' = Op("cci", xid, InvalidZSTid, 0, "ok")
    /\ UNCHANGED <<histvars, treevars, undolog, oldestundo, xstatus, allvisible, scanvars>>

\* every snapshot taken from now on sees the committed transaction xid
BecomeAllVisible(xid) ==
    /\ NoScanOpen
    /\ xstatus[xid] = "committed"
    /\ xid \notin allvisible
    /\ allvisible' = allvisible \cup {xid}
    /\ lastop' = Op("allvisible", xid, InvalidZSTid, 0, "ok")
    /\ UNCHANGED <<histvars, treevars, undolog, oldestundo, xstatus, curcid, scanvars>>

\* the records a reader of an item reaches from the item's UNDO pointer
RECURSIVE UndoChain(_)
UndoChain(ptr) ==
    IF ptr < oldestundo \/ ptr > Len(undolog) THEN {}
    ELSE {ptr} \cup (IF undolog[ptr].type = ZSUNDO_TYPE_INSERT THEN {}
                     ELSE UndoChain(undolog[ptr].prevundorec))

\* does a reader of an item that is not dead reach the record at ptr?
UndoPtrInUse(ptr) ==
    \E b \in DOMAIN pages :
        LET its == AllItems(pages[b].items) IN
        \E k \in DOMAIN its : ptr \in UndoChain(its[k].undo) /\ "DEAD" \notin its[k].flags

\* zsundo_get_oldest_undo_ptr / trimming: the oldest record is discarded once
\* its transaction is visible to everyone, or once it aborted and its effect
\* on the tree was undone
CanTrim(ptr) ==
    LET rec == undolog[ptr] IN
    \/ rec.xid \in allvisible
    \/ xstatus[rec.xid] = "aborted"
       /\ (rec.type = ZSUNDO_TYPE_TUPLE_LOCK \/ ~UndoPtrInUse(ptr))

AdvanceOldest ==
    /\ NoScanOpen
    /\ oldestundo <= Len(undolog)
    /\ CanTrim(oldestundo)
    /\ oldestundo' = oldestundo + 1
    /\ undolog' = [undolog EXCEPT ![oldestundo] = TrimmedRec]
    /\ lastop' = Op("advance_oldest", 0, InvalidZSTid, oldestundo, "ok")
    /\ UNCHANGED <<histvars, treevars, xactvars, scanvars>>

\* the item of the tree that covers tid, NoItem when there is none
ItemAt(pp, tid) ==
    LET covering == {b \in DOMAIN pp : pp[b].level = 0 /\ FindCovering(pp[b].items, tid) # NoItem}
    IN IF covering = {} THEN NoItem
       ELSE FindCovering(pp[CHOOSE b \in covering : TRUE].items, tid)

\* vacuum removes from the tree of a data attribute the row whose item of the
\* meta-attribute it has found dead
RemoveAttrItem(tid, compressible) ==
    /\ NoScanOpen
    /\ ~IsMeta
    /\ ItemAt(pages, tid) # NoItem
    /\ LET Returns(T) ==
               /\ StoreTree(T)
               /\ lastop' = Op("remove", 0, tid, 0,
                               IF T.err = NoError THEN "ok" ELSE "ERROR")
       IN Returns(zsbt_remove_item(CurTree, undolog, xstatus, oldestundo, tid,
                                   compressible))
    /\ UNCHANGED <<histvars, undolog, oldestundo, xactvars, scanvars>>

\* ---------------------------------------------------------------- visibility checks
AllSnapshotTypes == {"MVCC", "SELF", "ANY", "DIRTY", "NONVAC"}

\* the snapshots a backend can hold now: of a transaction in progress or of
\* no transaction (curxid 0). Only an MVCC snapshot has a set of transactions
\* it takes as running; a NonVacuumable snapshot carries OldestXmin in xmin,
\* which no transaction in progress precedes.
VisSnapshots ==
    {Snapshot(type, xid, IF xid = 0 THEN 0 ELSE curcid[xid], xip, xmin) :
         type \in AllSnapshotTypes, xid \in {0} \cup {x \in DOMAIN xstatus : InProgress(x)},
         xip \in SUBSET (DOMAIN xstatus \ allvisible), xmin \in 0..(MaxXid + 1)}

ValidVisSnapshot(sn) ==
    LET running == {x \in DOMAIN xstatus \ {sn.curxid} : InProgress(x)} IN
    /\ sn.curxid \notin sn.xip
    /\ running \subseteq sn.xip
    /\ sn.type # "MVCC" => sn.xip = running
    /\ sn.type # "NONVAC" => sn.xmin = 0
    /\ sn.type = "NONVAC" => sn.xmin >= 1 /\ \A x \in running : sn.xmin <= x

\* a backend evaluates zs_SatisfiesVisibility on the item that covers tid
SatisfiesVisibility(tid, snapshot) ==
    /\ NoScanOpen
    /\ ValidVisSnapshot(snapshot)
    /\ ItemAt(pages, tid) # NoItem
    /\ LET Evaluated(item) ==
               lastop' = [op |-> "visibility", xid |-> snapshot.curxid, tid |-> tid,
                          n |-> 0,
                          result |-> zs_SatisfiesVisibility(undolog, xstatus, oldestundo,
                                                            snapshot, item),
                          snapshot |-> snapshot,
                          after |-> SnapshotAfterVisibility(undolog, xstatus, oldestundo,
                                                            snapshot, item)]
       IN Evaluated(ItemAt(pages, tid))
    /\ UNCHANGED <<histvars, treevars, undolog, oldestundo, xactvars, scanvars>>

\* ---------------------------------------------------------------- scan actions
SnapshotTypes == {"MVCC", "ANY"}

\* the snapshots a backend can scan with: of a running transaction or of a
\* backend without one (curxid 0)
ScanSnapshots ==
    {Snapshot(type, xid, cid, xip, 0) :
        type \in SnapshotTypes, xid \in {0} \cup {x \in Xids : InProgress(x)},
        cid \in Cids, xip \in SUBSET Xids} 

ValidScanSnapshot(sn) ==
    /\ sn.xip \in ValidXips(sn.curxid)
    /\ sn.curxid # 0 => sn.curcid = curcid[sn.curxid]
    /\ sn.curxid = 0 => sn.curcid = 0
    /\ sn.type = "ANY" => sn.xip = {x \in Xids \ {sn.curxid} : InProgress(x)}

BeginScan(starttid, endtid, snapshot) ==
    /\ NoScanOpen
    /\ ValidScanSnapshot(snapshot)
    /\ starttid < endtid
    /\ LET Returns(r) ==
               /\ StoreTree(r.T)
               /\ scan' = r.scan
               /\ lastop' = ScanOp("begin_scan", snapshot.curxid, starttid, endtid, r)
       IN Returns(zsbt_begin_scan(CurTree, oldestundo, starttid, endtid, snapshot))
    /\ scanargs' = [starttid |-> starttid, endtid |-> endtid]
    /\ scanout' = <<>>
    /\ UNCHANGED <<histvars, undolog, oldestundo, xactvars>>

\* one call of zsbt_scan_next_tid; the scan is done when it returns InvalidZSTid
ScanDone == ~NoScanOpen /\ lastop.op = "scan_next_tid" /\ lastop.tid = InvalidZSTid

ScanNextTid ==
    /\ ~NoScanOpen
    /\ ~ScanDone
    /\ LET Returns(r) ==
               /\ scan' = r.scan
               /\ scanout' = IF r.tid = InvalidZSTid THEN scanout
                             ELSE Append(scanout, r.tid)
               /\ lastop' = ScanOp("scan_next_tid", 0, r.tid, 0, r)
       IN Returns(zsbt_scan_next_tid(scan, pages, undolog, xstatus))
    /\ UNCHANGED <<histvars, treevars, undolog, oldestundo, xactvars, scanargs>>

\* what zsbt_scan_next_fetch hands back for the TID it was asked for
FetchOp(tid, r) ==
    [op |-> "scan_next_fetch", xid |-> 0, tid |-> tid, n |-> 0,
     result |-> IF r.err = NoError THEN "ok" ELSE "ERROR",
     found |-> r.found, isnull |-> r.isnull, datum |-> r.datum, bufs |-> r.bufs]

\* one call of zsbt_scan_next_fetch, for a TID of the scan's range that is
\* greater than the TIDs of the earlier calls; scanout holds the TIDs asked for
ScanNextFetch(tid) ==
    /\ ~NoScanOpen
    /\ scanargs.starttid <= tid /\ tid < scanargs.endtid
    /\ \A k \in DOMAIN scanout : scanout[k] < tid
    /\ LET Returns(r) ==
               /\ scan' = r.scan
               /\ lastop' = FetchOp(tid, r)
       IN Returns(zsbt_scan_next_fetch(scan, tid, pages, undolog, xstatus))
    /\ scanout' = Append(scanout, tid)
    /\ UNCHANGED <<histvars, treevars, undolog, oldestundo, xactvars, scanargs>>

\* zsbt_end_scan
EndScan ==
    /\ ~NoScanOpen
    /\ scan' = NoScan
    /\ scanargs' = NoScanArgs
    /\ scanout' = <<>>
    /\ lastop' = Op("end_scan", 0, InvalidZSTid, 0, "ok")
    /\ UNCHANGED <<histvars, treevars, undolog, oldestundo, xactvars>>

\* ---------------------------------------------------------------- specification
\* Transactions run one after the other: a transaction id is assigned at the
\* first write, after the transactions before it have ended and vacuum has
\* worked through their UNDO records.
Serial(xid) ==
    \A y \in Xids : y < xid =>
        /\ xstatus[y] = "aborted" \/ y \in allvisible
        /\ \A ptr \in oldestundo..Len(undolog) : undolog[ptr].xid # y

\* the snapshot of xid when no other transaction is in progress
SerialXip(xid) == {}

\* an operation that appends n UNDO records leaves at most MaxUndo in the log
UndoRoom(n) == Len(undolog) + n <= MaxUndo

\* the first transaction loads rows, the later ones work on them
LoaderXid == CHOOSE x \in Xids : \A y \in Xids : x <= y
WorkerXids == Xids \ {LoaderXid}

\* every row operation and every vacuum step on one tree, one at a time
Next ==
    \/ \E xid \in Xids, isnulls \in IsnullSeqs, c \in BOOLEAN :
           Serial(xid) /\ UndoRoom(1) /\ MultiInsert(xid, isnulls, c)
    \/ \E xid \in WorkerXids, tid \in Tids, c \in BOOLEAN :
           Serial(xid) /\ UndoRoom(1) /\ Delete(xid, tid, SerialXip(xid), c)
    \/ \E xid \in WorkerXids, tid \in Tids, c \in BOOLEAN :
           Serial(xid) /\ UndoRoom(2) /\ Update(xid, tid, TRUE, TRUE, SerialXip(xid), c)
    \/ \E xid \in WorkerXids, tid \in Tids, c \in BOOLEAN :
           Serial(xid) /\ UndoRoom(1) /\ LockItem(xid, tid, LockTupleExclusive, SerialXip(xid), c)
    \/ \E tid \in Tids, ptr \in 1..MaxUndo, c \in BOOLEAN : MarkItemDead(tid, ptr, c)
    \/ \E tid \in Tids, c \in BOOLEAN : RemoveItem(tid, c)
    \/ \E tid \in Tids, ptr \in 1..MaxUndo, c \in BOOLEAN : UndoItemDeletion(tid, ptr, c)
    \/ \E xid \in Xids : Serial(xid) /\ Commit(xid)
    \/ \E xid \in WorkerXids : Serial(xid) /\ Abort(xid)
    \/ \E xid \in Xids : BecomeAllVisible(xid)
    \/ AdvanceOldest

Spec == Init /\ [][Next]_vars

\* zsbt_multi_insert calls with invalid TIDs on a fresh tree, and scans of
\* all the rows passed so far
ScanAllRows(snapshot) ==
    /\ nrows >= 1
    /\ BeginScan(MinZSTid, nrows + 1, snapshot)

\* a transaction begins when the one before it has ended
InOrder(xid) == \A y \in Xids : y < xid => ~InProgress(y)

NextInsert ==
    \/ \E xid \in Xids, isnulls \in IsnullSeqs, c \in BOOLEAN :
           InOrder(xid) /\ UndoRoom(1) /\ MultiInsert(xid, isnulls, c)
    \/ GetLastTid
    \/ \E xid \in Xids : InOrder(xid) /\ Commit(xid)
    \/ \E type \in SnapshotTypes :
           ScanAllRows(Snapshot(type, 0, 0, {x \in Xids : InProgress(x)}, 0))
    \/ ScanNextTid
    \/ EndScan

SpecInsert == Init /\ [][NextInsert]_vars
\* one transaction inserts and deletes rows, vacuum marks dead and removes
\* what it deleted, and the rows are scanned
ScanStarts == {MinZSTid, MinZSTid + 1}
ScanEnds == {MaxZSTid, MaxPlusOneZSTid}

NextScan ==
    \/ \E isnulls \in IsnullSeqs, c \in BOOLEAN :
           UndoRoom(1) /\ MultiInsert(LoaderXid, isnulls, c)
    \/ \E tid \in Tids, c \in BOOLEAN : UndoRoom(1) /\ Delete(LoaderXid, tid, {}, c)
    \/ CommandCounterIncrement(LoaderXid)
    \/ Commit(LoaderXid)
    \/ BecomeAllVisible(LoaderXid)
    \/ AdvanceOldest
    \/ \E tid \in Tids, ptr \in 1..MaxUndo, c \in BOOLEAN : MarkItemDead(tid, ptr, c)
    \/ \E tid \in Tids, c \in BOOLEAN : RemoveItem(tid, c)
    \/ \E s \in ScanStarts, e \in ScanEnds, sn \in ScanSnapshots :
           sn.curxid \in {0, LoaderXid} /\ BeginScan(s, e, sn)
    \/ ScanNextTid
    \/ EndScan

\* the tree of the meta-attribute
InitScan == InitWith(Xids) /\ IsMeta

SpecScan == InitScan /\ [][NextScan]_vars

\* one transaction loads rows and commits; the others delete them while the
\* others are in progress, commit or abort; vacuum rolls back the deletions
\* of the aborted ones
DeleteXids == 1..(MaxXid + 1)
DeleterXids == DeleteXids \ {LoaderXid}

NextDelete ==
    \/ \E isnulls \in IsnullSeqs, c \in BOOLEAN :
           UndoRoom(1) /\ MultiInsert(LoaderXid, isnulls, c)
    \/ \E xid \in DeleterXids, tid \in Tids, c \in BOOLEAN :
           /\ ~InProgress(LoaderXid)
           /\ UndoRoom(1)
           /\ \E xip \in ValidXips(xid) : Delete(xid, tid, xip, c)
    \/ \E xid \in DeleteXids : Commit(xid)
    \/ \E xid \in DeleterXids : Abort(xid)
    \/ \E xid \in DeleteXids : BecomeAllVisible(xid)
    \/ AdvanceOldest
    \/ \E tid \in Tids, ptr \in 1..MaxUndo, c \in BOOLEAN : UndoItemDeletion(tid, ptr, c)
    \/ \E tid \in Tids, ptr \in 1..MaxUndo : MarkItemDead(tid, ptr, FALSE)
    \/ \E tid \in Tids : RemoveItem(tid, FALSE)

InitDelete == InitWith(DeleteXids) /\ IsMeta

SpecDelete == InitDelete /\ [][NextDelete]_vars

\* one transaction loads rows and commits; the others delete, update and lock
\* the rows with any lock mode while the others are in progress, and commit
\* or abort; UNDO records of transactions that everyone sees are trimmed
NextRow ==
    \/ \E isnulls \in IsnullSeqs :
           nrows = 0 /\ Len(isnulls) = 1 /\ MultiInsert(LoaderXid, isnulls, FALSE)
    \/ \E xid \in DeleterXids, tid \in Tids :
           /\ ~InProgress(LoaderXid) /\ tid <= nrows + 1
           /\ \E xip \in ValidXips(xid) : Delete(xid, tid, xip, FALSE)
    \/ \E xid \in DeleterXids, tid \in Tids, key_update \in BOOLEAN :
           /\ ~InProgress(LoaderXid) /\ tid <= nrows + 1
           /\ \E xip \in ValidXips(xid) : Update(xid, tid, TRUE, key_update, xip, FALSE)
    \/ \E xid \in DeleterXids, tid \in Tids, lockmode \in LockModes :
           /\ ~InProgress(LoaderXid) /\ tid <= nrows + 1
           /\ \E xip \in ValidXips(xid) : LockItem(xid, tid, lockmode, xip, FALSE)
           /\ Len(undolog') <= MaxUndo
    \/ \E xid \in DeleteXids : Commit(xid)
    \/ \E xid \in DeleterXids : Abort(xid)
    \/ \E xid \in DeleteXids : BecomeAllVisible(xid)
    \/ AdvanceOldest

InitRow == InitWith(DeleteXids) /\ IsMeta

SpecRow == InitRow /\ [][NextRow]_vars

\* one transaction loads a row, another deletes, updates or locks it; vacuum
\* marks dead and rolls back, UNDO records are trimmed, and backends evaluate
\* zs_SatisfiesVisibility on the rows under snapshots of every kind
NextVis ==
    \/ \E isnulls \in IsnullSeqs :
           nrows = 0 /\ MultiInsert(LoaderXid, isnulls, FALSE)
    \/ \E xid \in WorkerXids, tid \in Tids :
           /\ ~InProgress(LoaderXid) /\ tid <= nrows /\ UndoRoom(1)
           /\ \E xip \in ValidXips(xid) : Delete(xid, tid, xip, FALSE)
    \/ \E xid \in WorkerXids, tid \in Tids :
           /\ ~InProgress(LoaderXid) /\ tid <= nrows /\ UndoRoom(2)
           /\ \E xip \in ValidXips(xid) : Update(xid, tid, TRUE, TRUE, xip, FALSE)
    \/ \E xid \in WorkerXids, tid \in Tids :
           /\ ~InProgress(LoaderXid) /\ tid <= nrows /\ UndoRoom(1)
           /\ \E xip \in ValidXips(xid) : LockItem(xid, tid, LockTupleShare, xip, FALSE)
    \/ \E xid \in WorkerXids : CommandCounterIncrement(xid)
    \/ \E xid \in Xids : Commit(xid)
    \/ \E xid \in Xids : Abort(xid)
    \/ \E xid \in Xids : BecomeAllVisible(xid)
    \/ AdvanceOldest
    \/ \E tid \in Tids, ptr \in 1..MaxUndo : MarkItemDead(tid, ptr, FALSE)
    \/ \E tid \in Tids, ptr \in 1..MaxUndo : UndoItemDeletion(tid, ptr, FALSE)
    \/ \E tid \in Tids :
           tid <= nrows /\ \E sn \in VisSnapshots : SatisfiesVisibility(tid, sn)

InitVis == InitWith(Xids) /\ IsMeta

SpecVis == InitVis /\ [][NextVis]_vars

\* one transaction loads a row and commits; the others, one per backend,
\* update the rows step by step, delete and lock them, and commit or abort
\* between their operations
BackendOf(xid) == xid - LoaderXid

NextUpdate ==
    \/ \E isnulls \in IsnullSeqs :
           nrows = 0 /\ Len(isnulls) = 1 /\ MultiInsert(LoaderXid, isnulls, FALSE)
    \/ \E xid \in DeleterXids, otid \in Tids, key_update \in BOOLEAN :
           /\ ~InProgress(LoaderXid) /\ otid <= nrows
           /\ \E xip \in ValidXips(xid) :
                  UpdateLockOld(BackendOf(xid), xid, otid, key_update, xip)
    \/ \E b \in Backends : UpdateInsertNew(b)
    \/ \E b \in Backends : UpdateMarkOld(b)
    \/ \E xid \in DeleterXids, tid \in Tids :
           /\ ~InProgress(LoaderXid) /\ tid <= nrows /\ ~Updating(xid)
           /\ \E xip \in ValidXips(xid) : Delete(xid, tid, xip, FALSE)
    \/ \E xid \in DeleterXids, tid \in Tids, lockmode \in LockModes :
           /\ ~InProgress(LoaderXid) /\ tid <= nrows /\ ~Updating(xid) /\ UndoRoom(1)
           /\ \E xip \in ValidXips(xid) : LockItem(xid, tid, lockmode, xip, FALSE)
    \/ \E xid \in DeleteXids : ~Updating(xid) /\ Commit(xid)
    \/ \E xid \in DeleterXids : ~Updating(xid) /\ Abort(xid)

SpecUpdate == InitRow /\ [][NextUpdate]_vars

\* the tree of a data attribute: one transaction inserts rows with and without
\* datums, vacuum removes rows, and a scan fetches the rows of ascending TIDs
NextFetch ==
    \/ \E isnulls \in IsnullSeqs, c \in BOOLEAN : MultiInsert(LoaderXid, isnulls, c)
    \/ \E tid \in Tids : RemoveAttrItem(tid, FALSE)
    \/ \E s \in ScanStarts :
           BeginScan(s, MaxPlusOneZSTid,
                     Snapshot("MVCC", 0, 0, {x \in Xids : InProgress(x)}, 0))
    \/ \E tid \in Tids : ScanNextFetch(tid)
    \/ EndScan

InitFetch == InitWith(Xids) /\ ~IsMeta

SpecFetch == InitFetch /\ [][NextFetch]_vars

\* the tree of a data attribute: one backend inserts rows one by one, each
\* call at once and while no page is locked, and the other backends descend
\* step by step
NextDescend ==
    \/ DOMAIN buflocks = {} /\ MultiInsert(LoaderXid, <<FALSE>>, FALSE)
    \/ \E b \in Backends, key \in Tids : DescendBegin(b, key, 0)
    \/ \E b \in Backends : DescendVisit(b)
    \/ \E b \in Backends : DescendRelease(b)
    \/ \E b \in Backends : CallerReleases(b)

SpecDescend == InitFetch /\ [][NextDescend]_vars

\* ---------------------------------------------------------------- leaf rewrite, step by step
\* zsbt_multi_insert of one backend while other backends descend the tree:
\* the backend is at "downlinks" when zsbt_recompress_replace has written the
\* page images and stands at its while loop; bufs is the list of the buffers
\* it has not released yet, wrote the blocks the images went to.
InRewrite(bufs, wrote) == [pc |-> "downlinks", bufs |-> bufs, wrote |-> wrote]

Rewriting(b) == backend[b] # Idle /\ backend[b].pc = "downlinks"

\* the block numbers of the images: the old block, then new blocks
ImageBufs(T, oldblk, images) ==
    [i \in 1..Len(images) |-> IF i = 1 THEN oldblk ELSE Len(T.pages) + i - 1]

RECURSIVE LockAll(_, _, _)
LockAll(locks, bufs, b) ==
    IF bufs = <<>> THEN locks
    ELSE LockAll(LockBufferExclusive(locks, Head(bufs), b), Tail(bufs), b)

\* the blocks a split may still add: a page at every level, and a new root
SplitRoom(T) == IF T.rootblk = InvalidBlockNumber THEN 1 ELSE T.pages[T.rootblk].level + 2

\* no other backend holds the lock of an internal page or of the block blk:
\* the descent of backend b does not have to wait
DescentFree(b, blk) ==
    \A x \in DOMAIN buflocks :
        buflocks[x] # b => x # blk /\ pages[x].level = 0

\* zsbt_insert_downlink descends from the root when the left page does not
\* carry ZSBT_ROOT; LockBuffer on a root the backend has locked itself never
\* returns
RootNotHeld(b, leftblk) == pages[leftblk].root \/ rootblk \notin HeldBy(buflocks, b)

RewriteOp(op, b, tid, bufs, result, before, after) ==
    [op |-> op, xid |-> b, tid |-> tid, n |-> Len(bufs), result |-> result,
     bufs |-> bufs, heldbefore |-> before, held |-> after]

\* zsbt_multi_insert up to END_CRIT_SECTION of zsbt_recompress_replace: the
\* rightmost leaf is found and locked, the items are recompressed, a buffer is
\* allocated for every further image and the images are written
RewriteWrite(b, isnulls) ==
    /\ backend[b] = Idle
    /\ \A o \in Backends : ~Rewriting(o)
    /\ InProgress(LoaderXid)
    /\ nrows + Len(isnulls) <= MaxRows
    /\ LET d == zsbt_descend(CurTree, MaxZSTid, 0)
           leaf == d.T.pages[d.blk]
           tid == AssignedTid(leaf)
           cxt == RecompressPages(leaf,
                                  leaf.items \o CreateItems(isnulls, 1, tid, InvalidUndoPtr),
                                  oldestundo, FALSE)
           bufs == ImageBufs(d.T, d.blk, cxt.pages)
           T == WriteImages(d.T, d.blk, cxt.pages)
           locked == LockAll(buflocks, bufs, b)
       IN /\ d.err = NoError
          /\ DescentFree(b, d.blk)
          /\ ~cxt.err
          /\ tid + Len(isnulls) - 1 <= MaxZSTid
          /\ Len(T.pages) + (Len(bufs) - 1) * SplitRoom(T) <= MaxBlocks
          /\ StoreTree(T)
          /\ buflocks' = locked
          /\ backend' = [backend EXCEPT ![b] = InRewrite(bufs, bufs)]
          /\ lastop' = RewriteOp("rewrite_write", b, tid, bufs, "ok",
                                 HeldBy(buflocks, b), HeldBy(locked, b))
    /\ nrows' = nrows + Len(isnulls)
    /\ UNCHANGED <<undolog, oldestundo, xactvars, scanvars, metapg>>

\* one iteration of the while loop: zsbt_insert_downlink for the first two
\* buffers of the list; the routine releases the left one
RewriteDownlink(b) ==
    /\ Rewriting(b)
    /\ Len(backend[b].bufs) > 1
    /\ DescentFree(b, InvalidBlockNumber)
    /\ RootNotHeld(b, backend[b].bufs[1])
    /\ LET bufs == backend[b].bufs
           T == zsbt_insert_downlink(CurTree, bufs[1], pages[bufs[1]].hikey, bufs[2])
           released == UnlockBuffer(buflocks, bufs[1])
       IN /\ StoreTree(T)
          /\ AfterError(T, LoaderXid)
          /\ IF T.err # NoError
             THEN /\ buflocks' = LWLockReleaseAll(buflocks, b)
                  /\ backend' = [backend EXCEPT ![b] = Idle]
                  /\ lastop' = RewriteOp("rewrite_downlink", b, pages[bufs[1]].hikey, bufs,
                                         "ERROR", HeldBy(buflocks, b), {})
             ELSE /\ buflocks' = released
                  /\ backend' = [backend EXCEPT ![b].bufs = Tail(bufs)]
                  /\ lastop' = RewriteOp("rewrite_downlink", b, pages[bufs[1]].hikey, bufs,
                                         "ok", HeldBy(buflocks, b), HeldBy(released, b))
    /\ UNCHANGED <<undolog, oldestundo, allvisible, scanvars, nrows, metapg>>

\* the end of zsbt_recompress_replace: the last page is released
RewriteReturn(b) ==
    /\ Rewriting(b)
    /\ Len(backend[b].bufs) = 1
    /\ buflocks' = UnlockBuffer(buflocks, backend[b].bufs[1])
    /\ backend' = [backend EXCEPT ![b] = Idle]
    /\ lastop' = RewriteOp("rewrite_return", b, InvalidZSTid, backend[b].wrote, "ok",
                           HeldBy(buflocks, b),
                           HeldBy(UnlockBuffer(buflocks, backend[b].bufs[1]), b))
    /\ UNCHANGED <<treevars, undolog, oldestundo, xactvars, scanvars, nrows, metapg>>

\* inserts that rewrite the rightmost leaf step by step while the other
\* backend descends the tree
\* inserts of several transactions into the meta-attribute tree, aborts, and
\* vacuum marking the rows of aborted inserts dead while the UNDO log is
\* trimmed: leaves with tombstones are rewritten by later inserts
NextRecompress ==
    \/ \E xid \in Xids, isnulls \in IsnullSeqs, c \in BOOLEAN :
           UndoRoom(1) /\ MultiInsert(xid, isnulls, c)
    \/ \E xid \in Xids : Commit(xid)
    \/ \E xid \in Xids : Abort(xid)
    \/ \E xid \in Xids : BecomeAllVisible(xid)
    \/ AdvanceOldest
    \/ \E tid \in Tids, ptr \in 1..MaxUndo, c \in BOOLEAN : MarkItemDead(tid, ptr, c)

SpecRecompress == InitVis /\ [][NextRecompress]_vars

\* rows inserted three at a time make array items of three elements; a
\* delete (meta-attribute) or a removal (attribute tree) then cuts them up
ArrayBatches ==
    {[i \in 1..ArrayLen |-> TRUE], [i \in 1..ArrayLen |-> FALSE], <<TRUE, TRUE>>,
     <<FALSE, FALSE>>}

NextArray ==
    \/ \E isnulls \in ArrayBatches, c \in BOOLEAN :
           UndoRoom(1) /\ MultiInsert(LoaderXid, isnulls, c)
    \/ Commit(LoaderXid)
    \/ \E xid \in WorkerXids, tid \in Tids, c \in BOOLEAN :
           /\ ~InProgress(LoaderXid)
           /\ UndoRoom(1)
           /\ \E xip \in ValidXips(xid) : Delete(xid, tid, xip, c)
    \/ \E tid \in Tids, c \in BOOLEAN : RemoveAttrItem(tid, c)

SpecArray == Init /\ [][NextArray]_vars

\* the batches of rows the rewriting inserts bring: one row, or a row with
\* a null and a row with a datum, which make two items
RewriteBatches == {<<FALSE>>, <<TRUE, FALSE>>}

\* zsbt_multi_insert when the relation can be extended by room blocks for
\* the page images: the rightmost leaf is found, the items are recompressed,
\* the buffers are allocated, the images written and the downlinks inserted
InsertWithRoom(xid, isnulls, compressible, room) ==
    /\ NoScanOpen
    /\ InProgress(xid)
    /\ ~IsMeta
    /\ rootblk # InvalidBlockNumber
    /\ nrows + Len(isnulls) <= MaxRows
    /\ LET d == zsbt_descend(CurTree, MaxZSTid, 0)
           leaf == d.T.pages[d.blk]
           tid == AssignedTid(leaf)
           cxt == RecompressPages(leaf,
                                  leaf.items \o CreateItems(isnulls, 1, tid, InvalidUndoPtr),
                                  oldestundo, compressible)
           W == AllocateThenWrite(d.T, d.blk, cxt.pages, room)
           T == IF W.err # NoError THEN W
                ELSE InsertDownlinks(W, ImageBufs(d.T, d.blk, cxt.pages))
       IN /\ d.err = NoError
          /\ ~cxt.err
          /\ tid + Len(isnulls) - 1 <= MaxZSTid
          /\ StoreTree(T)
          /\ AfterError(T, xid)
          /\ lastop' = Op("insert", xid, tid, Len(cxt.pages),
                          IF W.err # NoError THEN "no_space"
                          ELSE IF T.err # NoError THEN "ERROR" ELSE "ok")
          /\ nrows' = IF T.err = NoError THEN nrows + Len(isnulls) ELSE nrows
    /\ UNCHANGED <<concvars, metapg, undolog, oldestundo, allvisible, scanvars>>

\* inserts into an attribute tree of a relation that runs out of space
NextNoSpace ==
    \/ \E isnulls \in RewriteBatches : MultiInsert(LoaderXid, isnulls, FALSE)
    \/ \E xid \in Xids, isnulls \in RewriteBatches, c \in BOOLEAN, room \in 0..MaxRoom :
           InsertWithRoom(xid, isnulls, c, room)

SpecNoSpace == InitFetch /\ [][NextNoSpace]_vars

NextRewrite ==
    \/ \E b \in Backends, isnulls \in RewriteBatches : RewriteWrite(b, isnulls)
    \/ \E b \in Backends : RewriteDownlink(b)
    \/ \E b \in Backends : RewriteReturn(b)
    \/ \E b \in Backends, key \in Tids : DescendBegin(b, key, 0)
    \/ \E b \in Backends : DescendVisit(b)
    \/ \E b \in Backends : DescendRelease(b)
    \/ \E b \in Backends : CallerReleases(b)

SpecRewrite == InitFetch /\ [][NextRewrite]_vars

\* zsbt_insert_downlink can run: the backend is in the while loop with two
\* buffers or more, and the pages of its descent are not locked
CanInsertDownlink(b) ==
    /\ Rewriting(b) /\ Len(backend[b].bufs) > 1 /\ DescentFree(b, InvalidBlockNumber)
    /\ RootNotHeld(b, backend[b].bufs[1])

\* a backend that waits for a buffer lock is queued and gets it when the
\* holders have released it often enough; a backend that has a page locked
\* runs on to its release
\* The first condition is SF_vars(RewriteDownlink(b)) with the enabling
\* condition of the step written out.
SpecRewriteLive ==
    /\ SpecRewrite
    /\ \A b \in Backends :
           <>[]~CanInsertDownlink(b) \/ []<><<RewriteDownlink(b)>>_vars
    /\ \A b \in Backends : WF_vars(RewriteReturn(b))
    /\ \A b \in Backends : WF_vars(DescendVisit(b))
    /\ \A b \in Backends : WF_vars(DescendRelease(b))
    /\ \A b \in Backends : WF_vars(CallerReleases(b))

\* the first root of the tree is made by either metapage routine; the leaf
\* is then rewritten and split step by step while other backends descend
GetRootForUpdate ==
    /\ rootblk = InvalidBlockNumber
    /\ StoreTree(zsmeta_get_root_with_attlen(CurTree, TRUE))
    /\ lastop' = Op("get_root", 0, InvalidZSTid, 0, "ok")
    /\ UNCHANGED <<undolog, oldestundo, xactvars, scanvars, histvars>>

NextRoot ==
    \/ GetRootForUpdate
    \/ NextRewrite

SpecRoot == InitFetch /\ [][NextRoot]_vars

\* zedstoream_insert by several backends at once. The tree of the state is
\* that of a later attribute; the tree of the first attribute, where the call
\* with an invalid TID assigns the next TID under the lock of the rightmost
\* leaf, is the count of the TIDs it has assigned.
InRowInsert(xid, tid, isnull) == [pc |-> "attribute", xid |-> xid, tid |-> tid, isnull |-> isnull]

RowInserting(b) == backend[b] # Idle /\ backend[b].pc = "attribute"

\* the call for the first attribute: the row gets its TID
InsertFirstAttribute(b, isnull) ==
    /\ backend[b] = Idle
    /\ InProgress(b)
    /\ nrows < MaxRows
    /\ nrows' = nrows + 1
    /\ backend' = [backend EXCEPT ![b] = InRowInsert(b, nrows + 1, isnull)]
    /\ lastop' = Op("assign_tid", b, nrows + 1, 1, "ok")
    /\ UNCHANGED <<treevars, undolog, oldestundo, xactvars, scanvars, buflocks, metapg>>

\* the call for the next attribute, with the TID of the row
InsertNextAttribute(b, compressible) ==
    /\ RowInserting(b)
    /\ Len(undolog) < MaxUndoLog
    /\ LET Returns(r) ==
               /\ StoreTree(r.T)
               /\ undolog' = r.log
               /\ AfterError(r.T, b)
               /\ lastop' = Op("insert", b, backend[b].tid, 1,
                               IF r.T.err = NoError THEN "ok" ELSE "ERROR")
       IN Returns(zsbt_multi_insert(CurTree, undolog, backend[b].tid,
                                    <<backend[b].isnull>>, b, curcid[b], TRUE,
                                    oldestundo, compressible))
    /\ backend' = [backend EXCEPT ![b] = Idle]
    /\ UNCHANGED <<nrows, oldestundo, allvisible, scanvars, buflocks, metapg>>

NextRowInsert ==
    \/ \E b \in Backends, isnull \in BOOLEAN : InsertFirstAttribute(b, isnull)
    \/ \E b \in Backends, c \in BOOLEAN : InsertNextAttribute(b, c)

SpecRowInsert == InitFetch /\ [][NextRowInsert]_vars

\* the items zsbt_multi_insert creates for a batch of rows with datums of
\* several sizes: MaxZedStoreDatumSize is DatumCap in the unit of the sizes
PackOp(isnulls, tids, sizes, items) ==
    [op |-> "create_items", xid |-> 0, tid |-> tids[1], n |-> Len(tids), result |-> "ok",
     isnulls |-> isnulls, tids |-> tids, sizes |-> sizes, items |-> items]

AscendingTids(n) ==
    {t \in [1..n -> Tids] : \A i \in 1..n - 1 : t[i] < t[i + 1]}

CreateItemsForBatch(isnulls, tids, sizes) ==
    /\ lastop' = PackOp(isnulls, tids, [i \in DOMAIN sizes |-> IF isnulls[i] THEN 0 ELSE sizes[i]],
                        CreateItemsOfSizes(isnulls, tids, sizes, 1, DatumCap))
    /\ UNCHANGED <<treevars, undolog, oldestundo, xactvars, scanvars, histvars>>

NextPack ==
    \E n \in 1..MaxPack : \E isnulls \in [1..n -> BOOLEAN], tids \in AscendingTids(n),
                             sizes \in [1..n -> DatumSizes] :
        CreateItemsForBatch(isnulls, tids, sizes)

SpecPack == InitFetch /\ [][NextPack]_vars

\* ---------------------------------------------------------------- parallel scan
\* ZSTidFromBlkOff: the argument is converted to a BlockNumber
ZSTidFromBlkOff(blk, off) == (blk % BlockNumberRange) * TidsPerBlock + off

\* ParallelZSScanDescData
ParallelZSScanDesc(endtid, allocatedtid_blk) ==
    [pzs_endtid |-> endtid, pzs_allocatedtid_blk |-> allocatedtid_blk]

\* zs_parallelscan_initialize: [T, pscan]
zs_parallelscan_initialize(T0) ==
    LET r == zsbt_get_last_tid(T0) IN
    [T |-> r.T, pscan |-> ParallelZSScanDesc(r.tid, 0)]

\* zs_parallelscan_nextrange: [pscan, start, end, result]; the counter is
\* fetched and incremented in one atomic step
zs_parallelscan_nextrange(pzscan) ==
    LET allocatedtid_blk == pzscan.pzs_allocatedtid_blk
        start == ZSTidFromBlkOff(allocatedtid_blk, 1)
        end == ZSTidFromBlkOff(allocatedtid_blk + 1, 1)
    IN [pscan |-> [pzscan EXCEPT !.pzs_allocatedtid_blk = allocatedtid_blk + 1],
        start |-> start, end |-> end, result |-> start < pzscan.pzs_endtid]

\* the shared descriptor is in scan, the ranges handed out with a true result
\* are in scanout, and backend[b] is the state of the scan of worker b
ParallelScanStarted == scan # NoScan

RangeOp(op, b, start, end, result) ==
    [op |-> op, xid |-> b, tid |-> start, n |-> end, result |-> result]

InRange(pc, start, end) == [pc |-> pc, start |-> start, end |-> end]

ParallelInitialize ==
    /\ ~ParallelScanStarted
    /\ LET Returns(r) ==
               /\ r.T.err = NoError
               /\ StoreTree(r.T)
               /\ scan' = r.pscan
               /\ lastop' = RangeOp("parallelscan_initialize", 0, InvalidZSTid,
                                    r.pscan.pzs_endtid, "ok")
       IN Returns(zs_parallelscan_initialize(CurTree))
    /\ UNCHANGED <<histvars, undolog, oldestundo, xactvars, scanargs, scanout>>

\* zedstoream_getnextslot of worker b, whose scan is unstarted or has finished
\* its range, asks for the next range
ParallelNextRange(b) ==
    /\ ParallelScanStarted
    /\ backend[b].pc \in {"idle", "finished_range"}
    /\ LET r == zs_parallelscan_nextrange(scan) IN
       /\ scan' = r.pscan
       /\ IF r.result
          THEN /\ backend' = [backend EXCEPT ![b] = InRange("scanning", r.start, r.end)]
               /\ scanout' = Append(scanout, [start |-> r.start, end |-> r.end])
          ELSE /\ backend' = [backend EXCEPT ![b] = InRange("finished", r.start, r.end)]
               /\ scanout' = scanout
       /\ lastop' = RangeOp("nextrange", b, r.start, r.end, r.result)
    /\ UNCHANGED <<treevars, undolog, oldestundo, xactvars, scanargs, nrows, buflocks,
                   metapg>>

\* the scan of worker b has returned the rows of its range
ParallelFinishRange(b) ==
    /\ backend[b].pc = "scanning"
    /\ backend' = [backend EXCEPT ![b] = [@ EXCEPT !.pc = "finished_range"]]
    /\ lastop' = RangeOp("finish_range", b, backend[b].start, backend[b].end, "ok")
    /\ UNCHANGED <<treevars, undolog, oldestundo, xactvars, scanvars, nrows, buflocks,
                   metapg>>

\* rows are loaded into the tree of attribute 1, then a parallel scan is
\* initialized and its workers take ranges
NextParallel ==
    \/ \E isnulls \in IsnullSeqs :
           ~ParallelScanStarted /\ attno = 1 /\ MultiInsert(LoaderXid, isnulls, FALSE)
    \/ attno = 1 /\ ParallelInitialize
    \/ \E b \in Backends : ParallelNextRange(b)
    \/ \E b \in Backends : ParallelFinishRange(b)

SpecParallel == InitFetch /\ [][NextParallel]_vars

\* the metapage of a table: the table is created with some attributes,
\* attributes are added to it, and backends ask for the roots of the trees
MetaOp(op, att, r) ==
    [op |-> op, xid |-> 0, tid |-> InvalidZSTid, n |-> att,
     result |-> IF r.err = NoError THEN "ok" ELSE "ERROR", rootblk |-> r.rootblk]

\* CREATE TABLE with natts attributes
CreateTable(natts) ==
    /\ metapg = NoMetapage
    /\ lastop.op = "init"
    /\ metapg' = [metapg EXCEPT !.natts = natts]
    /\ lastop' = Op("create_table", 0, InvalidZSTid, natts, "ok")
    /\ UNCHANGED <<treevars, undolog, oldestundo, xactvars, scanvars, nrows, concvars>>

\* ALTER TABLE ADD COLUMN: the attribute is in the catalog, not yet in the file
AddColumn ==
    /\ lastop.op # "init"
    /\ metapg.natts < MaxNatts
    /\ metapg' = [metapg EXCEPT !.natts = @ + 1]
    /\ lastop' = Op("add_column", 0, InvalidZSTid, metapg.natts + 1, "ok")
    /\ UNCHANGED <<treevars, undolog, oldestundo, xactvars, scanvars, nrows, concvars>>

\* a backend asks for the root of the tree of an attribute of the table
GetRootForAttribute(att, forupdate, atthasmissing) ==
    /\ lastop.op # "init"
    /\ ~metapg.overrun
    /\ att <= metapg.natts
    /\ metapg.nblocks < MaxBlocks
    /\ LET Returns(r) ==
               /\ metapg' = r.M
               /\ lastop' = MetaOp(IF forupdate THEN "get_root_for_update" ELSE "get_root",
                                   att, r)
       IN Returns(MetaGetRootForAttribute(metapg, att, forupdate, atthasmissing))
    /\ UNCHANGED <<treevars, undolog, oldestundo, xactvars, scanvars, nrows, concvars>>

NextMeta ==
    \/ \E natts \in 0..MaxNatts : CreateTable(natts)
    \/ AddColumn
    \/ \E att \in 0..MaxNatts, forupdate \in BOOLEAN, atthasmissing \in BOOLEAN :
           GetRootForAttribute(att, forupdate, atthasmissing)

SpecMeta == InitScan /\ [][NextMeta]_vars

\* ---------------------------------------------------------------- properties
LeafBlocks == {b \in DOMAIN pages : pages[b].level = 0}
InternalBlocks == {b \in DOMAIN pages : pages[b].level > 0}

\* the items of a leaf, those inside its containers included
LeafItems(b) == AllItems(pages[b].items)

ItemTids(item) == item.tid..zsbt_item_lasttid(item)

StoredTidsOf(pp) ==
    UNION {UNION {ItemTids(AllItems(pp[b].items)[k]) : k \in DOMAIN AllItems(pp[b].items)} :
               b \in {x \in DOMAIN pp : pp[x].level = 0}}

StoredTids == StoredTidsOf(pages)

\* the snapshot sees the transaction of every INSERT record
SeesEveryInserter(snapshot) ==
    \/ snapshot.type = "ANY"
    \/ \A ptr \in DOMAIN undolog :
           undolog[ptr].type = ZSUNDO_TYPE_INSERT
           => xid_is_visible(xstatus, snapshot, undolog[ptr].xid, undolog[ptr].cid).visible

Ascending(n) == [i \in 1..n |-> i]

RightmostLeafOf(pp) == CHOOSE b \in DOMAIN pp : pp[b].level = 0 /\ pp[b].next = InvalidBlockNumber

\* one past the last TID of the rightmost item of the rightmost leaf, or that
\* leaf's lokey when it is empty; a tree without root gets a leaf from MinZSTid
NextTidOf(pp) ==
    IF pp = <<>> THEN MinZSTid
    ELSE LET leaf == pp[RightmostLeafOf(pp)] IN
         IF leaf.items = <<>> THEN leaf.lokey
         ELSE leaf.items[Len(leaf.items)].lasttid + 1

\* C9: a zsbt_multi_insert call that is passed invalid TIDs and returns
\* assigns consecutive TIDs that start one past the last TID of the rightmost
\* item of the rightmost leaf (at the leaf's lokey when it is empty), and
\* they are greater than every TID assigned by an earlier call.
C9_AssignedTids ==
    [][(nrows' # nrows /\ lastop'.result = "ok") =>
          LET first == lastop'.tid
              n == nrows' - nrows
          IN /\ lastop'.n = n
             /\ first = NextTidOf(pages)
             /\ \A t \in StoredTidsOf(pages) : t < first
             /\ StoredTidsOf(pages') = StoredTidsOf(pages) \cup (first..(first + n - 1))]_vars

\* a call assigned TIDs to two rows after earlier calls had split the leaf
C9_Witness ==
    /\ lastop.op = "insert" /\ lastop.result = "ok"
    /\ lastop.n = 2 /\ lastop.tid >= 3
    /\ InternalBlocks # {}
    /\ StoredTids = 1..nrows

\* items its lie in [lokey, hikey), in strictly ascending order, not overlapping
ItemsWithin(its, lokey, hikey) ==
    /\ \A k \in DOMAIN its :
           /\ lokey <= its[k].tid
           /\ its[k].tid <= zsbt_item_lasttid(its[k])
           /\ zsbt_item_lasttid(its[k]) < hikey
    /\ \A k \in 1..(Len(its) - 1) : zsbt_item_lasttid(its[k]) < its[k + 1].tid

\* C3: at rest after any sequence of insert, delete, update, lock, mark-dead,
\* remove and undo-deletion, the items of every leaf page have lokey <= tid
\* and lasttid < hikey and are strictly ordered by TID without overlap; this
\* holds for the items on the page and for the items inside its containers.
C3_LeafItemsOrdered ==
    \A b \in LeafBlocks :
        /\ ItemsWithin(pages[b].items, pages[b].lokey, pages[b].hikey)
        /\ ItemsWithin(LeafItems(b), pages[b].lokey, pages[b].hikey)

\* a leaf that is not the leftmost one holds the pieces of an array that a
\* row operation has cut, in a tree whose leaves were split
C3_Witness ==
    /\ lastop.op \in {"delete", "update", "lock", "mark_dead", "remove", "undo_deletion"}
    /\ lastop.result \in {"ok", TM_Ok}
    /\ \E b \in LeafBlocks :
           /\ pages[b].lokey > MinZSTid
           /\ Len(LeafItems(b)) >= 2
           /\ \E k \in DOMAIN LeafItems(b) : LeafItems(b)[k].flags \cap {"DELETED", "UPDATED", "DEAD"} # {}

\* C4: at rest, each entry (k, c) of an internal page P points to a child one
\* level below whose lokey is k and whose hikey is the next entry's key, or
\* P's hikey for the last entry.
C4_DownlinksMatchChildren ==
    \A b \in InternalBlocks :
        LET P == pages[b] IN
        \A i \in DOMAIN P.downlinks :
            LET c == P.downlinks[i].childblk IN
            /\ c \in DOMAIN pages
            /\ pages[c].level = P.level - 1
            /\ pages[c].lokey = P.downlinks[i].tid
            /\ pages[c].hikey = IF i < Len(P.downlinks) THEN P.downlinks[i + 1].tid
                                ELSE P.hikey

\* an internal page below the root has entries, after internal pages were split
C4_Witness ==
    /\ \E b \in InternalBlocks : b # rootblk /\ pages[b].downlinks # <<>>
    /\ \E b \in InternalBlocks : pages[b].level = 2 /\ Len(pages[b].downlinks) >= 2

IncomingDownlinks(c) ==
    Cardinality({<<b, i>> \in InternalBlocks \X (1..(InternalCap + 1)) :
                    i <= Len(pages[b].downlinks) /\ pages[b].downlinks[i].childblk = c})

\* the blocks reached from block set S over downlinks, S included
RECURSIVE DownwardClosure(_, _)
DownwardClosure(S, n) ==
    LET more == S \cup {pages[b].downlinks[i].childblk :
                            <<b, i>> \in {<<x, j>> \in (S \cap DOMAIN pages) \X (1..(InternalCap + 1)) :
                                              j <= Len(pages[x].downlinks)}}
    IN IF n = 0 \/ more = S THEN S ELSE DownwardClosure(more, n - 1)

\* the blocks visited from b over right-links, at most n of them
RECURSIVE RightChain(_, _)
RightChain(b, n) ==
    IF n = 0 \/ b \notin DOMAIN pages THEN <<>>
    ELSE <<b>> \o RightChain(pages[b].next, n - 1)

LevelBlocks(l) == {b \in DOMAIN pages : pages[b].level = l}

RightLinksOk(l) ==
    LET leftmost == {b \in LevelBlocks(l) : pages[b].lokey = MinZSTid} IN
    /\ Cardinality(leftmost) = 1
    /\ LET chain == RightChain(CHOOSE b \in leftmost : TRUE, Len(pages) + 1) IN
       /\ Len(chain) = Cardinality(LevelBlocks(l))
       /\ {chain[i] : i \in DOMAIN chain} = LevelBlocks(l)
       /\ \A i \in DOMAIN chain : pages[chain[i]].lokey < pages[chain[i]].hikey
       /\ \A i \in 1..(Len(chain) - 1) :
              pages[chain[i]].hikey = pages[chain[i + 1]].lokey
       /\ pages[chain[Len(chain)]].next = InvalidBlockNumber

\* C6: at rest, every page of the tree is reachable from the root in the
\* metapage by exactly one downlink path, and on each level the right-links
\* from the leftmost page visit every page of the level exactly once, in
\* ascending key order, each hikey being the right sibling's lokey and the
\* rightmost page having no right sibling.
C6_OnePathAndSiblingChain ==
    pages # <<>> =>
        /\ rootblk \in DOMAIN pages
        /\ DownwardClosure({rootblk}, Len(pages)) = DOMAIN pages
        /\ \A b \in DOMAIN pages : IncomingDownlinks(b) = IF b = rootblk THEN 0 ELSE 1
        /\ \A l \in 0..pages[rootblk].level : RightLinksOk(l)
        /\ \A b \in DOMAIN pages : pages[b].level <= pages[rootblk].level

\* a leaf in the middle of its level was split: three leaves, and the middle
\* of the level is the newest block of the three
C6_Witness ==
    /\ pages # <<>>
    /\ pages[rootblk].level >= 2
    /\ \E b \in LeafBlocks :
           /\ pages[b].next \in LeafBlocks
           /\ pages[pages[b].next].next \in LeafBlocks
           /\ pages[b].next > pages[pages[b].next].next

\* the TIDs in [starttid, endtid) that have an item which satisfies
\* zs_SatisfiesVisibility under the snapshot
VisibleTids(snapshot, starttid, endtid) ==
    {t \in starttid..(endtid - 1) :
        \E b \in LeafBlocks : \E k \in DOMAIN LeafItems(b) :
            /\ t \in ItemTids(LeafItems(b)[k])
            /\ zs_SatisfiesVisibility(undolog, xstatus, oldestundo, snapshot,
                                      LeafItems(b)[k])}

SeqSet(q) == {q[i] : i \in DOMAIN q}

\* C2: a scan of [start, end) yields strictly ascending TIDs within the
\* range, each one the TID of an item that satisfies zs_SatisfiesVisibility
\* under the scan's snapshot, and when the scan is done it has yielded every
\* such TID of the range.
C2_ScanYieldsVisibleTids ==
    ~NoScanOpen =>
        LET visible == VisibleTids(scan.snapshot, scanargs.starttid, scanargs.endtid) IN
        /\ \A i \in 1..(Len(scanout) - 1) : scanout[i] < scanout[i + 1]
        /\ SeqSet(scanout) \subseteq visible
        /\ ScanDone => SeqSet(scanout) = visible

\* the TIDs a scan of the whole TID range returns, by zsbt_begin_scan and
\* zsbt_scan_next_tid calls until one returns InvalidZSTid
RECURSIVE ScanRest(_, _, _, _, _)
ScanRest(sc, pp, log, xs, n) ==
    IF n = 0 THEN <<>>
    ELSE LET r == zsbt_scan_next_tid(sc, pp, log, xs) IN
         IF r.tid = InvalidZSTid THEN <<>>
         ELSE <<r.tid>> \o ScanRest(r.scan, pp, log, xs, n - 1)

ScanYield(pp, root, log, xs, oldest, snapshot) ==
    LET b == zsbt_begin_scan(Tree(pp, root, NoError), oldest, MinZSTid, MaxPlusOneZSTid,
                             snapshot)
    IN SeqSet(ScanRest(b.scan, b.T.pages, log, xs, MaxTid + 1))

\* the MVCC snapshots that backends other than the one running transaction X
\* can hold when the transactions have the statuses xs: of a transaction in
\* progress or of no transaction, with every transaction in progress in xip
SnapshotsOfOthers(X, xs) ==
    LET running == {x \in DOMAIN xs : xs[x] = "inprogress"} IN
    {sn \in {Snapshot("MVCC", y, cid, xip, 0) :
                 y \in ({0} \cup running) \ {X}, cid \in Cids, xip \in SUBSET DOMAIN xs} :
        /\ sn.curxid \notin sn.xip
        /\ running \ {sn.curxid} \subseteq sn.xip
        /\ sn.xip \cap allvisible = {}
        /\ sn.curcid >= (IF sn.curxid = 0 THEN 0 ELSE curcid[sn.curxid])}

XactStatuses == {"inprogress", "committed", "aborted"}

\* this step is a zsbt_delete call that returned TM_Ok
DeleteReturnsOk == lastop'.op = "delete" /\ lastop'.result = TM_Ok /\ undolog' # undolog

\* C10: after zsbt_delete of TID t by transaction X returns TM_Ok, whatever
\* becomes of X, a scan under a snapshot of another backend to which X is
\* visible (X committed and not in the snapshot's in-progress set) yields the
\* TIDs it yielded before the call except t, and a scan under a snapshot to
\* which X is not visible (X in progress, aborted, or in the snapshot's
\* in-progress set) yields the TIDs it yielded before the call.
C10_DeleteHidesOnlyT ==
    [][DeleteReturnsOk =>
          LET X == lastop'.xid
              t == lastop'.tid
          IN \A s \in XactStatuses :
                 LET xs == [xstatus EXCEPT ![X] = s] IN
                 \A sn \in SnapshotsOfOthers(X, xs) :
                     LET before == ScanYield(pages, rootblk, undolog, xs, oldestundo, sn)
                         after == ScanYield(pages', rootblk', undolog', xs, oldestundo, sn)
                     IN IF xs[X] = "committed" /\ X \notin sn.xip
                        THEN after = before \ {t}
                        ELSE after = before]_vars

\* the item of tid is live and the head of its UNDO chain is a tuple lock
\* that another transaction holds, which is still in progress
LockedByOther(xid, tid) ==
    LET Holds(item) ==
            /\ item # NoItem
            /\ item.flags \cap {"DEAD", "DELETED", "UPDATED"} = {}
            /\ \E ptr \in UndoChain(item.undo) :
                   /\ undolog[ptr].type = ZSUNDO_TYPE_TUPLE_LOCK
                   /\ undolog[ptr].xid # xid
                   /\ InProgress(undolog[ptr].xid)
    IN Holds(ItemAt(pages, tid))

\* the modes of the locks that transactions in progress other than xid hold
\* on the row: the tuple-lock records of the item's UNDO chain
HeldModes(xid, tid) ==
    {undolog[ptr].lockmode :
         ptr \in {q \in UndoChain(ItemAt(pages, tid).undo) :
                      /\ undolog[q].type = ZSUNDO_TYPE_TUPLE_LOCK
                      /\ undolog[q].xid # xid
                      /\ InProgress(undolog[q].xid)}}

\* the pairs <<held, requested>> of lock modes that do not conflict
CompatiblePairs ==
    {<<LockTupleKeyShare, LockTupleKeyShare>>, <<LockTupleShare, LockTupleKeyShare>>,
     <<LockTupleNoKeyExclusive, LockTupleKeyShare>>,
     <<LockTupleKeyShare, LockTupleShare>>, <<LockTupleShare, LockTupleShare>>,
     <<LockTupleKeyShare, LockTupleNoKeyExclusive>>}

\* this step is a zsbt_lock_item call that found the row (it raised no ERROR)
\* and the row's lock is held by another transaction in progress
LockRequestOnHeldRow ==
    /\ lastop'.op = "lock"
    /\ lastop'.result # "ERROR"
    /\ LockedByOther(lastop'.xid, lastop'.tid)

\* C15 as stated: zsbt_lock_item on a row that other transactions in progress
\* have locked finds the held modes compatible with the requested one (does
\* not return TM_BeingModified) iff each held mode's number is >= the
\* requested mode's number, for each of the 16 pairs of modes.
C15_CompatibleIffHolderNotWeaker ==
    [][LockRequestOnHeldRow =>
          (lastop'.result # TM_BeingModified
               <=> \A held \in HeldModes(lastop'.xid, lastop'.tid) : held >= lastop'.n)]_vars

\* C15 amended: the modes are ordered KeyShare < Share < NoKeyExclusive <
\* Exclusive, and zsbt_lock_item on a row that other transactions in progress
\* have locked finds a held mode compatible with the requested one iff the
\* pair is one of: KeyShare held with a KeyShare, Share or NoKeyExclusive
\* request; Share held with a KeyShare or Share request; NoKeyExclusive held
\* with a KeyShare request. Exclusive conflicts with every mode. The call
\* returns TM_BeingModified iff some held mode conflicts.
C15_CompatibleIffNoConflict ==
    /\ LockTupleKeyShare < LockTupleShare
    /\ LockTupleShare < LockTupleNoKeyExclusive
    /\ LockTupleNoKeyExclusive < LockTupleExclusive
    /\ [][LockRequestOnHeldRow =>
             (lastop'.result # TM_BeingModified
                  <=> \A held \in HeldModes(lastop'.xid, lastop'.tid) :
                          <<held, lastop'.n>> \in CompatiblePairs)]_vars

\* an Exclusive lock held by a transaction in progress made a KeyShare request
\* of another transaction return TM_BeingModified
C15_Witness ==
    /\ lastop.op = "lock"
    /\ lastop.n = LockTupleKeyShare
    /\ lastop.result = TM_BeingModified
    /\ LockedByOther(lastop.xid, lastop.tid)
    /\ HeldModes(lastop.xid, lastop.tid) = {LockTupleExclusive}

\* the last step evaluated zs_SatisfiesVisibility; the item it was given
VisibilityEvaluated == lastop.op = "visibility"
EvaluatedItem == ItemAt(pages, lastop.tid)

\* the rules zs_SatisfiesVisibility applies without an UNDO record, for the
\* snapshot kinds in kinds: the result that the item's flags and UNDO pointer
\* alone decide
DecidedWithoutUndo(item, result, kinds) ==
    IF "DEAD" \in item.flags THEN ~result
    ELSE IF ~IsZSUndoRecPtrValid(zsbt_item_undoptr(item)) THEN result
    ELSE (zsbt_item_undoptr(item) < oldestundo /\ lastop.snapshot.type \in kinds)
             => (result <=> ~IsDeletedItem(item))

\* C12 as stated: under every snapshot kind zs_SatisfiesVisibility finds a
\* dead item invisible, else an item with an invalid UNDO pointer visible,
\* else an item whose UNDO pointer is older than the oldest live one visible
\* iff it carries neither the deleted nor the updated flag.
C12_DecidedBeforeUndoEveryKind ==
    VisibilityEvaluated => DecidedWithoutUndo(EvaluatedItem, lastop.result, AllSnapshotTypes)

\* C12 amended: under every snapshot kind a dead item is invisible and else
\* an item with an invalid UNDO pointer is visible; else, under MVCC, Self,
\* Dirty and NonVacuumable, an item whose UNDO pointer is older than the
\* oldest live one is visible iff it carries neither the deleted nor the
\* updated flag, and under Any every item that is not dead is visible.
C12_DecidedBeforeUndo ==
    VisibilityEvaluated =>
        /\ DecidedWithoutUndo(EvaluatedItem, lastop.result, AllSnapshotTypes \ {"ANY"})
        /\ (lastop.snapshot.type = "ANY" /\ "DEAD" \notin EvaluatedItem.flags)
               => lastop.result

\* a deleted item whose UNDO pointer is older than the oldest live one was
\* evaluated under an Any snapshot and found visible
C12_Witness ==
    /\ VisibilityEvaluated
    /\ lastop.snapshot.type = "ANY"
    /\ IsDeletedItem(EvaluatedItem)
    /\ "DEAD" \notin EvaluatedItem.flags
    /\ IsZSUndoRecPtrValid(zsbt_item_undoptr(EvaluatedItem))
    /\ zsbt_item_undoptr(EvaluatedItem) < oldestundo
    /\ lastop.result

\* this step is an evaluation of zs_SatisfiesVisibility
EvaluatesVisibility == lastop'.op = "visibility"

\* the evaluation left the item, the tree, the UNDO log and the transactions
\* as they were
VisibilityReadsOnly ==
    /\ pages' = pages /\ rootblk' = rootblk
    /\ undolog' = undolog /\ oldestundo' = oldestundo
    /\ xstatus' = xstatus /\ curcid' = curcid /\ allvisible' = allvisible

\* evaluating again on the same item and chain, under the snapshot the first
\* evaluation left, returns what the first evaluation returned
VisibilityRepeats ==
    zs_SatisfiesVisibility(undolog', xstatus', oldestundo', lastop'.after,
                           ItemAt(pages', lastop'.tid)) = lastop'.result

\* C14 as stated: under every snapshot kind, evaluating zs_SatisfiesVisibility
\* has no effect on the snapshot, the item or the tree, and evaluating it
\* again on the same item, chain and snapshot returns the same result.
C14_PureEveryKind ==
    [][EvaluatesVisibility =>
          /\ VisibilityReadsOnly
          /\ lastop'.after = lastop'.snapshot
          /\ VisibilityRepeats]_vars

\* C14 amended: under every snapshot kind, evaluating zs_SatisfiesVisibility
\* has no effect on the item or the tree, and evaluating it again on the same
\* item and chain returns the same result; under MVCC, Self, Any and
\* NonVacuumable it has no effect on the snapshot, under Dirty it changes
\* nothing of the snapshot but xmin and xmax.
C14_Pure ==
    [][EvaluatesVisibility =>
          /\ VisibilityReadsOnly
          /\ lastop'.snapshot.type # "DIRTY" => lastop'.after = lastop'.snapshot
          /\ lastop'.after = [lastop'.snapshot EXCEPT !.xmin = lastop'.after.xmin,
                                                      !.xmax = lastop'.after.xmax]
          /\ VisibilityRepeats]_vars

\* an evaluation under a Dirty snapshot recorded a transaction in progress in
\* the snapshot
C14_Witness ==
    /\ VisibilityEvaluated
    /\ lastop.snapshot.type = "DIRTY"
    /\ lastop.after # lastop.snapshot

\* the MVCC snapshots a backend can hold now
MVCCSnapshots == {sn \in VisSnapshots : sn.type = "MVCC" /\ ValidVisSnapshot(sn)}

\* the items that carry the deleted or the updated flag and whose delete or
\* update record is still in the UNDO log
DeletedItems ==
    {item \in {ItemAt(pages, tid) : tid \in StoredTids} :
        /\ IsDeletedItem(item)
        /\ "DEAD" \notin item.flags
        /\ zsbt_item_undoptr(item) \in oldestundo..Len(undolog)}

\* is the transaction that inserted the row of tid visible to the snapshot?
\* Its INSERT record is trimmed only when everyone sees the transaction.
InserterVisible(snapshot, tid) ==
    \A ptr \in oldestundo..Len(undolog) :
        (undolog[ptr].type = ZSUNDO_TYPE_INSERT
             /\ undolog[ptr].tid <= tid /\ tid <= undolog[ptr].endtid)
        => xid_is_visible(xstatus, snapshot, undolog[ptr].xid, undolog[ptr].cid).visible

\* C13: under an MVCC snapshot an item flagged deleted or updated is
\* invisible when the transaction of its delete or update record is visible
\* to the snapshot, and else it is visible iff the transaction that inserted
\* the row is visible to the snapshot.
C13_DeletedVisibleIffInserterVisible ==
    \A item \in DeletedItems : \A sn \in MVCCSnapshots :
        LET rec == undolog[zsbt_item_undoptr(item)] IN
        zs_SatisfiesVisibility(undolog, xstatus, oldestundo, sn, item)
            = (IF xid_is_visible(xstatus, sn, rec.xid, rec.cid).visible THEN FALSE
               ELSE InserterVisible(sn, item.tid))

RowOps == {"delete", "update", "lock"}
ConflictResults == {TM_SelfModified, TM_BeingModified, TM_Updated, TM_Deleted}

\* the UNDO records zs_SatisfiesUpdate can find an item in conflict with: the
\* delete or update record of an item flagged deleted or updated, else the
\* tuple-lock records of the item's chain
ConflictingRecords(item) ==
    IF IsDeletedItem(item) THEN UndoChain(item.undo) \cap {item.undo}
    ELSE {ptr \in UndoChain(item.undo) : undolog[ptr].type = ZSUNDO_TYPE_TUPLE_LOCK}

\* the failure record names the item of tid and the conflicting record rec
FailureFilled(result, tmfd, xid, tid, rec) ==
    /\ tmfd.xmax = rec.xid
    /\ tmfd.ctid = (IF result = TM_Updated THEN rec.newtid ELSE tid)
    /\ result = TM_SelfModified => tmfd.cmax = rec.cid /\ rec.xid = xid
    /\ result = TM_Deleted => rec.type = ZSUNDO_TYPE_DELETE
    /\ result = TM_Updated => rec.type = ZSUNDO_TYPE_UPDATE

\* this step is a row operation that wrote its UNDO record without a link
\* to the item's earlier record
WritesUnlinkedRecord ==
    /\ lastop'.op \in RowOps
    /\ Len(undolog') > Len(undolog)
    /\ undolog'[Len(undolog')].type # ZSUNDO_TYPE_INSERT
    /\ undolog'[Len(undolog')].tid = lastop'.tid
    /\ undolog'[Len(undolog')].prevundorec = InvalidUndoPtr

\* C16: when zs_SatisfiesUpdate, called by zsbt_delete, zsbt_update or
\* zsbt_lock_item, returns SelfModified, BeingModified, Updated or Deleted,
\* the failure record holds the TID of the item (of the new version for
\* Updated) and as xmax the xid of the conflicting UNDO record (and as cmax
\* that record's cid for SelfModified); and the existing UNDO record is
\* reported discardable (the new record is written without a link to it)
\* only when the result is Ok and the existing record is older than the
\* oldest live one or belongs to an aborted transaction.
C16_FailureRecordFilled ==
    [][/\ (lastop'.op \in RowOps /\ lastop'.result \in ConflictResults) =>
              \E ptr \in ConflictingRecords(ItemAt(pages, lastop'.tid)) :
                  FailureFilled(lastop'.result, lastop'.tmfd, lastop'.xid, lastop'.tid,
                                undolog[ptr])
       /\ WritesUnlinkedRecord =>
              /\ lastop'.result = TM_Ok
              /\ \/ ItemAt(pages, lastop'.tid).undo < oldestundo
                 \/ xstatus[undolog[ItemAt(pages, lastop'.tid).undo].xid] = "aborted"]_vars

\* a call returned TM_Updated with the new version's TID in the failure record
C16_Witness ==
    /\ lastop.op \in RowOps
    /\ lastop.result = TM_Updated
    /\ lastop.tmfd.ctid # lastop.tid
    /\ lastop.tmfd.ctid \in StoredTids
    /\ lastop.tmfd.xmax \in DeleterXids

\* every result with which zs_SatisfiesUpdate reports a conflict
AllConflicts == ConflictResults \cup {TM_Invisible}

\* this step ends a zsbt_delete, zsbt_update or zsbt_lock_item whose last
\* call of zs_SatisfiesUpdate reported a conflict
ConflictDetected == lastop'.op \in RowOps /\ lastop'.detected \in AllConflicts

\* C17: when zsbt_delete, zsbt_update or zsbt_lock_item detects a conflict
\* (Invisible, SelfModified, BeingModified, Updated or Deleted) at any of its
\* steps, it returns that result, and it has appended no UNDO record, has
\* inserted or changed no item (an update has inserted no new version) and
\* holds no page lock and no pin.
C17_ConflictReturnsUntouched ==
    [][ConflictDetected =>
           /\ lastop'.result = lastop'.detected
           /\ lastop'.bufs = NoBufs
           /\ undolog' = undolog
           /\ pages' = pages
           /\ lastop'.op = "update" => lastop'.n = InvalidZSTid]_vars

ScanCalls == {"begin_scan", "scan_next_tid"}

\* C18: whenever zsbt_begin_scan or zsbt_scan_next returns to its caller, the
\* scan holds no lock on any tree page, and it holds at most a pin, on its
\* current leaf.
C18_ScanReturnsUnlocked ==
    (lastop.op \in ScanCalls /\ lastop.result = "ok") =>
        /\ lastop.bufs.locked = {}
        /\ lastop.bufs.pinned \subseteq ScanPin(scan).pinned
        /\ \A b \in lastop.bufs.pinned : pages[b].level = 0

\* zsbt_scan_next has returned a row of a leaf that is not the leftmost one,
\* and keeps the pin on that leaf
C18_Witness ==
    /\ lastop.op = "scan_next_tid"
    /\ lastop.tid # InvalidZSTid
    /\ lastop.bufs = Bufs({}, {scan.lastbuf})
    /\ pages[scan.lastbuf].lokey > MinZSTid

\* the item of tid is a tombstone with UNDO counter U
Tombstone(pp, tid, U) ==
    /\ ItemAt(pp, tid) # NoItem
    /\ "DEAD" \in ItemAt(pp, tid).flags
    /\ zsbt_item_undoptr(ItemAt(pp, tid)) = U

\* the leaf that holds the item of tid
LeafHolding(pp, tid) ==
    CHOOSE b \in DOMAIN pp : pp[b].level = 0 /\ FindCovering(pp[b].items, tid) # NoItem

\* this step has rewritten the leaf that holds the item of tid
LeafRewritten(tid) == pages'[LeafHolding(pages, tid)] # pages[LeafHolding(pages, tid)]

\* this step is a zsbt_mark_item_dead that found a live item to replace
MarksLiveItemDead ==
    /\ lastop'.op = "mark_dead"
    /\ lastop'.result = "ok"
    /\ ItemAt(pages, lastop'.tid) # NoItem
    /\ "DEAD" \notin ItemAt(pages, lastop'.tid).flags

\* C19: a tombstone written by zsbt_mark_item_dead with UNDO counter U is on
\* the page after every rewrite of its leaf performed while oldest_live <= U
\* (the rewrite that writes it included), and the first rewrite of the leaf
\* performed while oldest_live > U leaves no item for the TID.
C19_TombstoneKeptUntilHorizonPasses ==
    [][/\ (MarksLiveItemDead /\ oldestundo <= lastop'.n) =>
              Tombstone(pages', lastop'.tid, lastop'.n)
       /\ \A tid \in Tids : \A U \in 1..MaxUndoLog :
              (Tombstone(pages, tid, U) /\ lastop'.op # "remove") =>
                  /\ oldestundo <= U => Tombstone(pages', tid, U)
                  /\ (oldestundo > U /\ LeafRewritten(tid)) =>
                         ItemAt(pages', tid) = NoItem]_vars

\* the tree after zsbt_mark_item_dead(tid, undoptr) on the tree T
MarkedDead(T, tid, undoptr, compressible) ==
    zsbt_mark_item_dead(T, undolog, xstatus, oldestundo, tid, undoptr, compressible)

\* the second of two calls with the same arguments changes no page
MarkDeadTwiceIsOnce(tid, undoptr, compressible) ==
    LET Again(T) ==
            T.err = NoError => MarkedDead(T, tid, undoptr, compressible).pages = T.pages
    IN Again(MarkedDead(CurTree, tid, undoptr, compressible))

\* C20: zsbt_mark_item_dead is idempotent: for any tree, TID and UNDO pointer,
\* a second call with the same arguments leaves every page image as the
\* first call left it.
C20_MarkDeadIdempotent ==
    \A tid \in Tids : \A undoptr \in 1..MaxUndoLog : \A compressible \in BOOLEAN :
        MarkDeadTwiceIsOnce(tid, undoptr, compressible)

\* zsbt_mark_item_dead has left a tombstone, which a second call finds
C20_Witness ==
    /\ lastop.op = "mark_dead"
    /\ lastop.result = "ok"
    /\ Tombstone(pages, lastop.tid, lastop.n)
    /\ MarkedDead(CurTree, lastop.tid, lastop.n, FALSE).pages = pages

\* the head of the item's UNDO chain is still in the log
HeadRecordLive(item) == zsbt_item_undoptr(item) \in oldestundo..Len(undolog)

\* the item of tid carries the updated flag and the update record at the head
\* of its chain is in the log
HasNewVersion(tid) ==
    /\ ItemAt(pages, tid) # NoItem
    /\ "UPDATED" \in ItemAt(pages, tid).flags
    /\ HeadRecordLive(ItemAt(pages, tid))
    /\ undolog[zsbt_item_undoptr(ItemAt(pages, tid))].type = ZSUNDO_TYPE_UPDATE

UpdateRecordOf(tid) == undolog[zsbt_item_undoptr(ItemAt(pages, tid))]

\* the versions of the row from the item of tid on, along the new TIDs of the
\* update records
RECURSIVE VersionChain(_, _)
VersionChain(tid, n) ==
    IF n = 0 \/ ~HasNewVersion(tid) THEN {tid}
    ELSE {tid} \cup VersionChain(UpdateRecordOf(tid).newtid, n - 1)

\* every version is on a page, and the last one is neither deleted nor updated
ChainOfUpdates(chain) ==
    /\ Cardinality(chain) > 1
    /\ \A v \in chain :
           /\ ItemAt(pages, v) # NoItem
           /\ "DEAD" \notin ItemAt(pages, v).flags
           /\ IsDeletedItem(ItemAt(pages, v)) => HasNewVersion(v)

SeenBy(sn, rec) == xid_is_visible(xstatus, sn, rec.xid, rec.cid).visible

\* a snapshot that sees an updating transaction sees the version that the
\* transaction has updated: the transaction found it committed
SeesInCommitOrder(sn, chain) ==
    \A v \in chain :
        (HasNewVersion(v) /\ SeenBy(sn, UpdateRecordOf(v))) => InserterVisible(sn, v)

VisibleVersions(sn, chain) ==
    {v \in chain :
        zs_SatisfiesVisibility(undolog, xstatus, oldestundo, sn, ItemAt(pages, v))}

\* exactly one version is visible: the old one when the updating transaction
\* is not visible to the snapshot, and else a later one, the new version
\* when that is the last one
OneVersionVisible(sn, tid, chain) ==
    /\ Cardinality(VisibleVersions(sn, chain)) = 1
    /\ (tid \in VisibleVersions(sn, chain)) = ~SeenBy(sn, UpdateRecordOf(tid))
    /\ ~HasNewVersion(UpdateRecordOf(tid).newtid) =>
           (UpdateRecordOf(tid).newtid \in VisibleVersions(sn, chain))
               = SeenBy(sn, UpdateRecordOf(tid))

VersionsVisible ==
    \A tid \in StoredTids :
        LET Checked(chain) ==
                ChainOfUpdates(chain) =>
                    \A sn \in MVCCSnapshots :
                        (InserterVisible(sn, tid) /\ SeesInCommitOrder(sn, chain)) =>
                            OneVersionVisible(sn, tid, chain)
        IN Checked(VersionChain(tid, MaxTid))

\* this step is a zsbt_update that returned TM_Ok
UpdateReturnsOk == lastop'.op = "update" /\ lastop'.result = TM_Ok

\* the old item after the update: flagged, with an update record of the
\* transaction at the head that carries the new TID
OldItemMarked ==
    LET old == ItemAt(pages', lastop'.tid) IN
    /\ old # NoItem
    /\ "UPDATED" \in old.flags
    /\ zsbt_item_undoptr(old) \in 1..Len(undolog')
    /\ undolog'[zsbt_item_undoptr(old)].type = ZSUNDO_TYPE_UPDATE
    /\ undolog'[zsbt_item_undoptr(old)].xid = lastop'.xid
    /\ undolog'[zsbt_item_undoptr(old)].newtid = lastop'.n
    /\ lastop'.n \in StoredTidsOf(pages')

\* the update record chains to the head the item had before the update
ChainsToEarlierHead ==
    undolog'[zsbt_item_undoptr(ItemAt(pages', lastop'.tid))].prevundorec
        = zsbt_item_undoptr(ItemAt(pages, lastop'.tid))

\* C11: each successful zsbt_update flags the old item as updated and makes
\* the head of its UNDO chain an update record with the new version's TID
\* that chains to the item's earlier head; and for every MVCC snapshot that
\* sees the original insert exactly one version of the row is visible, the
\* new one if the updating transaction is visible to the snapshot and else
\* the old one, also along several successive updates.
C11_UpdateChainsVersions ==
    [][/\ UpdateReturnsOk => (OldItemMarked /\ ChainsToEarlierHead)
       /\ VersionsVisible']_vars

\* the element stored for tid: the single item, or the element of the array
\* item that covers it
ElementAt(pp, tid) ==
    IF ItemAt(pp, tid) = NoItem THEN NoItem ELSE ExtractElement(ItemAt(pp, tid), tid)

\* this step is a zsbt_undo_item_deletion that returned
UndoDeletionReturns == lastop'.op = "undo_deletion" /\ lastop'.result = "ok"

\* the item at the TID of the call carries the UNDO pointer of the call
PointersEqual ==
    /\ ItemAt(pages, lastop'.tid) # NoItem
    /\ zsbt_item_undoptr(ItemAt(pages, lastop'.tid)) = lastop'.n

\* the item of the call has lost its deleted and updated flags and its UNDO
\* pointer, and nothing else
FlagsCleared ==
    /\ ElementAt(pages', lastop'.tid) # NoItem
    /\ ElementAt(pages', lastop'.tid)
           = [ElementAt(pages, lastop'.tid) EXCEPT
                 !.flags = @ \ {"DELETED", "UPDATED"}, !.undo = InvalidUndoPtr]

OtherItemsUnchanged ==
    \A t \in Tids \ {lastop'.tid} : ElementAt(pages', t) = ElementAt(pages, t)

\* a tombstone may have gone from the rewritten leaf
OtherItemsUnchangedButTombstones ==
    \A t \in Tids \ {lastop'.tid} :
        \/ ElementAt(pages', t) = ElementAt(pages, t)
        \/ /\ "DEAD" \in ElementAt(pages, t).flags
           /\ ElementAt(pages', t) = NoItem
           /\ LeafHolding(pages, t) = LeafHolding(pages, lastop'.tid)

\* C21: zsbt_undo_item_deletion(tid, undoptr) changes nothing (no page image,
\* no item flag, no UNDO pointer) when the item at tid is missing or its UNDO
\* pointer differs from undoptr; only when the pointers are equal does it
\* clear the item's deleted/updated flags, and it changes no other item.
C21_UndoDeletionOnlyOnEqualPointer ==
    [][UndoDeletionReturns =>
           /\ undolog' = undolog
           /\ ~PointersEqual => pages' = pages
           /\ PointersEqual => (FlagsCleared /\ OtherItemsUnchanged)]_vars

\* C21 (amended): as C21, except that the rewrite of the leaf, made when the
\* pointers are equal, may leave out tombstones of that leaf.
C21_UndoDeletionKeepsLiveItems ==
    [][UndoDeletionReturns =>
           /\ undolog' = undolog
           /\ ~PointersEqual => pages' = pages
           /\ PointersEqual => (FlagsCleared /\ OtherItemsUnchangedButTombstones)]_vars

\* vacuum has rolled back the deletion of a row on a leaf that holds the
\* tombstone of another row
C21_Witness ==
    /\ lastop.op = "undo_deletion"
    /\ lastop.result = "ok"
    /\ ItemAt(pages, lastop.tid) # NoItem
    /\ ItemAt(pages, lastop.tid).flags \cap {"DELETED", "UPDATED", "DEAD"} = {}
    /\ zsbt_item_undoptr(ItemAt(pages, lastop.tid)) = InvalidUndoPtr
    /\ \E t \in Tids \ {lastop.tid} :
           ItemAt(pages, t) # NoItem /\ "DEAD" \in ItemAt(pages, t).flags

\* zsbt_undo_item_deletion has met an item with a later UNDO pointer
UndoDeletionMetLaterPointer ==
    /\ lastop.op = "undo_deletion"
    /\ ItemAt(pages, lastop.tid) # NoItem
    /\ zsbt_item_undoptr(ItemAt(pages, lastop.tid)) > lastop.n

\* zsbt_undo_item_deletion has found no item at the TID
UndoDeletionFoundNoItem ==
    /\ lastop.op = "undo_deletion"
    /\ ItemAt(pages, lastop.tid) = NoItem

\* the row of tid as the scan should see it: NoItem when the tree holds no
\* visible item that covers tid
VisibleElement(tid) ==
    IF ItemAt(pages, tid) # NoItem
       /\ zs_SatisfiesVisibility(undolog, xstatus, oldestundo, scan.snapshot,
                                 ItemAt(pages, tid))
    THEN ElementAt(pages, tid)
    ELSE NoItem

FetchReturns == lastop'.op = "scan_next_fetch" /\ lastop'.result = "ok"

\* C22: for any sequence of zsbt_scan_next_fetch(scan, tid) calls with
\* strictly increasing tid arguments, also ones that skip TIDs inside the
\* array item being returned, a call returns true exactly when the tree holds
\* a visible item covering tid, and the datum and null flag it returns are
\* the ones stored for exactly that tid.
C22_FetchReturnsRowOfTid ==
    [][FetchReturns =>
           /\ lastop'.found = (VisibleElement(lastop'.tid) # NoItem)
           /\ lastop'.found =>
                  /\ lastop'.isnull = ("NULL" \in VisibleElement(lastop'.tid).flags)
                  /\ ~lastop'.isnull =>
                         <<lastop'.datum>> = VisibleElement(lastop'.tid).payload]_vars

\* this step is a read-only operation on a tree that has no root
ReadsEmptyTree ==
    /\ lastop'.op \in {"begin_scan", "get_last_tid"}
    /\ lastop'.result = "ok"
    /\ rootblk = InvalidBlockNumber

\* C23: a descent into an attribute tree that has no root yet returns an
\* invalid handle: zsbt_begin_scan then yields an inactive scan that returns
\* no rows, zsbt_get_last_tid returns the minimum TID, and neither read-only
\* operation allocates a page or modifies the metapage root directory.
C23_EmptyTreeReadsAllocateNothing ==
    [][ReadsEmptyTree =>
           /\ pages' = pages
           /\ rootblk' = rootblk
           /\ lastop'.op = "begin_scan" => ~scan'.active
           /\ lastop'.op = "get_last_tid" => lastop'.tid = MinZSTid]_vars

\* what holds of the two operations on a tree without a root: the scan
\* returns no row and zsbt_get_last_tid returns the minimum TID
EmptyTreeReadsFindNothing ==
    [][/\ (ReadsEmptyTree /\ lastop'.op = "get_last_tid") => lastop'.tid = MinZSTid
       /\ (lastop'.op = "scan_next_tid" /\ pages[1].items = <<>> /\ Len(pages) = 1)
              => lastop'.tid = InvalidZSTid]_vars

\* this step is a zsmeta_get_root_for_attribute that creates the metapage
CreatesDirectory == lastop'.op = "get_root_for_update" /\ metapg.nblocks = 0

\* this step is one that adds the attribute to the directory of the metapage
ExtendsDirectory ==
    /\ lastop'.op = "get_root_for_update"
    /\ metapg.nblocks # 0
    /\ lastop'.n > metapg.nattributes

\* every attribute the metapage counts has an initialized directory entry
DirectoryInitialized(M) ==
    \A a \in 1..M.nattributes :
        a \in DOMAIN M.tree_root_dir /\ M.tree_root_dir[a].initialized

\* C24: creating or extending the metapage root directory fails with a
\* configuration error whenever the table has zero attributes or the
\* directory for the requested attributes would not fit in the metapage; on
\* success every attribute number 1..nattributes has its own initialized
\* directory entry, and adding an attribute never writes a directory entry
\* beyond the metapage's capacity.
C24_DirectoryFitsOrFails ==
    [][/\ (CreatesDirectory /\ (metapg.natts = 0 \/ metapg.natts > MaxAtts)) =>
              lastop'.result = "ERROR"
       /\ (ExtendsDirectory /\ lastop'.n > MaxAtts) => lastop'.result = "ERROR"
       /\ ((CreatesDirectory \/ ExtendsDirectory) /\ lastop'.result = "ok") =>
              DirectoryInitialized(metapg')
       /\ ~metapg'.overrun]_vars

\* what holds of creating the directory: zsmeta_initmetapage fails for a
\* table of no attributes or of more than fit, and else initializes the
\* entries of all the attributes
InitMetapageFitsOrFails ==
    [][CreatesDirectory =>
           /\ (metapg.natts = 0 \/ metapg.natts > MaxAtts) => lastop'.result = "ERROR"
           /\ lastop'.result = "ok" => DirectoryInitialized(metapg')
           /\ ~metapg'.overrun]_vars

\* backend b has read a downlink and has not locked the page it points to yet
BeforeChildLock(b) ==
    /\ Descending(b)
    /\ backend[b].via = "down"
    /\ backend[b].pc \in {"release", "visit"}

\* C25: at every step down of zsbt_descend, the lock on the child page is
\* acquired before the lock on the parent page is released (lock-coupling),
\* so a descending process never holds zero tree-page locks between reading
\* a downlink and locking the page it points to.
C25_DescendLockCoupling ==
    \A b \in Backends :
        BeforeChildLock(b) => backend[b].buf \in HeldBy(buflocks, b)

\* a descent has met a page that was split after its downlink was read
RestartReached == lastop.op = "descend" /\ lastop.result = "restart"

\* a descent has raised an error
DescendErrorReached == lastop.op = "descend" /\ lastop.result = "ERROR"

\* a restarted descent has returned a page
ReturnAfterRestartReached ==
    /\ lastop.op = "descend" /\ lastop.result = "found"
    /\ lastop.failblk # InvalidBlockNumber

\* this step of backend b is a visit of zsbt_descend that found key >= hikey
\* on a page without the follow-right flag
Restarts(b) ==
    /\ lastop'.op = "descend" /\ lastop'.xid = b /\ lastop'.result = "restart"
    /\ backend[b] # Idle /\ backend[b].pc = "visit"

\* this step of backend b is a visit, after a restart, that raised an error
RaisesAfterRestart(b) ==
    /\ lastop'.op = "descend" /\ lastop'.xid = b /\ lastop'.result = "ERROR"
    /\ backend[b] # Idle /\ backend[b].pc = "visit"
    /\ backend[b].failblk # InvalidBlockNumber

\* the leaf of the tree whose key range holds key, reached from the root
\* along the downlinks
RECURSIVE PageForKey(_, _, _)
PageForKey(blk, key, level) ==
    IF pages[blk].level = level THEN blk
    ELSE PageForKey(pages[blk].downlinks[
                        zsbt_binsrch_internal(key, pages[blk].downlinks) + 1].childblk,
                    key, level)

\* this step of backend b is a visit, after a restart, that returned a page
ReturnsAfterRestart(b) ==
    /\ lastop'.op = "descend" /\ lastop'.xid = b /\ lastop'.result = "found"
    /\ lastop'.failblk # InvalidBlockNumber

\* C26: when zsbt_descend arrives at a page with key >= hikey and
\* follow-right clear, it remembers that block, restarts from the root, and,
\* the tree being well-formed at the time of the retry, the retry returns
\* the correct page for the key at the requested level; a corruption error
\* is raised only if the retry arrives at the remembered block again, and
\* the restarting process keeps no lock or pin on the dead-end page.
C26_RestartRetriesFromRoot ==
    [][\A b \in Backends :
           /\ Restarts(b) =>
                  /\ backend'[b].failblk = backend[b].next
                  /\ backend'[b].next = rootblk
                  /\ backend[b].next \notin lastop'.held
           /\ RaisesAfterRestart(b) => backend[b].next = backend[b].failblk
           /\ ReturnsAfterRestart(b) =>
                  lastop'.n = PageForKey(rootblk, lastop'.tid, backend[b].level)]_vars

\* what holds of a restart: the block is remembered and the descent goes on
\* at the root
RestartRemembersBlock ==
    [][\A b \in Backends :
           Restarts(b) =>
               /\ backend'[b].failblk = backend[b].next
               /\ backend'[b].next = rootblk]_vars

\* every error of a restarted descent is raised at the root, for its level
RestartEndsInLevelError ==
    [][\A b \in Backends :
           RaisesAfterRestart(b) =>
               /\ backend[b].next = rootblk
               /\ pages[rootblk].level # backend[b].nextlevel]_vars

\* probes of the step-wise rewrite
RewriteOfThreePages == \E b \in Backends : Rewriting(b) /\ Len(backend[b].wrote) >= 3
RewriteErrorReached == lastop.op = "rewrite_downlink" /\ lastop.result = "ERROR"
InternalSplitInRewrite ==
    /\ lastop.op = "rewrite_downlink"
    /\ \E blk \in DOMAIN pages : pages[blk].level >= 2

\* the step is the write-out, a downlink insert, or the return of a rewrite
RewriteWrites == lastop'.op = "rewrite_write"
RewriteInsertsDownlink == lastop'.op = "rewrite_downlink" /\ lastop'.result = "ok"
RewriteReturns == lastop'.op = "rewrite_return"

\* C27: a leaf rewrite that splits a page holds exclusive locks on the target
\* leaf and on every newly allocated sibling while the page images are
\* written, then releases the locks on all new siblings before it starts
\* inserting downlinks, and performs each downlink insert holding only the
\* left sibling's lock, which the downlink routine releases before returning;
\* when the rewrite returns it holds no lock.
C27_DownlinksUnderLeftLockOnly ==
    [][/\ RewriteWrites => lastop'.held = SeqSet(lastop'.bufs)
       /\ RewriteInsertsDownlink =>
              /\ lastop'.heldbefore = {lastop'.bufs[1]}
              /\ lastop'.bufs[1] \notin lastop'.held
       /\ RewriteReturns => lastop'.held = {}]_vars

\* C27: a leaf rewrite holds exclusive locks on the target leaf and on every
\* newly allocated sibling while the page images are written and keeps them
\* over the downlink inserts: each downlink insert is performed holding the
\* locks of the left sibling and of every page of the rewrite to its right,
\* the downlink routine releases the left sibling's lock before returning,
\* the lock of the last page is released last, and the rewrite returns
\* holding no lock.
C27_DownlinksUnderRemainingLocks ==
    [][/\ RewriteWrites => lastop'.held = SeqSet(lastop'.bufs)
       /\ RewriteInsertsDownlink =>
              /\ lastop'.heldbefore = SeqSet(lastop'.bufs)
              /\ lastop'.held = SeqSet(Tail(lastop'.bufs))
       /\ RewriteReturns =>
              /\ lastop'.heldbefore = {lastop'.bufs[Len(lastop'.bufs)]}
              /\ lastop'.held = {}]_vars

\* a rewrite into three pages or more has returned
C27_Witness == lastop.op = "rewrite_return" /\ Len(lastop.bufs) >= 3

FollowRightSet == \E blk \in DOMAIN pages : pages[blk].followright

\* the places (page, position) of the downlinks that point to blk
DownlinksTo(P, blk) ==
    {pos \in {<<x, i>> : x \in DOMAIN P, i \in 1..InternalCap} :
        /\ pos[2] <= Len(P[pos[1]].downlinks)
        /\ P[pos[1]].downlinks[pos[2]].childblk = blk}

\* blk has exactly one downlink, in a page one level above it
OneDownlinkAbove(P, blk) ==
    /\ Cardinality(DownlinksTo(P, blk)) = 1
    /\ \A pos \in DownlinksTo(P, blk) : P[pos[1]].level = P[blk].level + 1

\* a completed rewrite: no page has follow-right left and every new right
\* sibling has its downlink
RewriteComplete ==
    lastop.op = "rewrite_return" =>
        /\ ~FollowRightSet
        /\ \A i \in 2..Len(lastop.bufs) : OneDownlinkAbove(pages, lastop.bufs[i])

\* the downlinks go in from left to right: an insert gives the second page of
\* the list its downlink, the pages after it have none yet
DownlinksLeftToRight ==
    [][RewriteInsertsDownlink =>
           /\ DownlinksTo(pages, lastop'.bufs[2]) = {}
           /\ OneDownlinkAbove(pages', lastop'.bufs[2])
           /\ ~pages'[lastop'.bufs[1]].followright
           /\ \A i \in 3..Len(lastop'.bufs) :
                  DownlinksTo(pages', lastop'.bufs[i]) = {}]_vars

DownlinkInsertHasRoom ==
    \A b \in Backends :
        CanInsertDownlink(b) =>
            Len(zsbt_insert_downlink(CurTree, backend[b].bufs[1],
                                     pages[backend[b].bufs[1]].hikey,
                                     backend[b].bufs[2]).pages) <= MaxBlocks

\* the items, containers opened, of the leaves from blk on over the
\* right-links
RECURSIVE ChainItems(_, _)
ChainItems(pp, blk) ==
    IF blk \notin DOMAIN pp THEN <<>>
    ELSE AllItems(pp[blk].items) \o ChainItems(pp, pp[blk].next)

\* this step is a zsbt_multi_insert that rewrote the rightmost leaf
InsertRewritesLeaf ==
    /\ lastop'.op = "insert" /\ lastop'.result = "ok"
    /\ rootblk # InvalidBlockNumber

\* a dead item whose UNDO pointer is older than the oldest live one
OldEnoughDead(item) == "DEAD" \in item.flags /\ zsbt_item_undoptr(item) < oldestundo

\* the items of the page images, containers opened, that were on the old page
\* (rows below the first TID of the insert), and those of the new rows
WrittenOld == SelectSeq(ChainItems(pages', RightmostLeafOf(pages)),
                        LAMBDA it : it.tid < lastop'.tid)
WrittenNew == SelectSeq(ChainItems(pages', RightmostLeafOf(pages)),
                        LAMBDA it : it.tid >= lastop'.tid)

\* the new rows are stored once each, in TID order
NewRowsStoredOnce ==
    /\ \A k \in DOMAIN WrittenNew :
           WrittenNew[k].tid = IF k = 1 THEN lastop'.tid
                               ELSE zsbt_item_lasttid(WrittenNew[k - 1]) + 1
    /\ WrittenNew # <<>>
    /\ zsbt_item_lasttid(WrittenNew[Len(WrittenNew)]) = lastop'.tid + lastop'.n - 1

\* C29: the recompress-and-rewrite step conserves items: every item of its
\* input list, other than a dead item old enough to be elided, appears
\* exactly once in the output page images - either directly or inside exactly
\* one compressed container - and in the same TID order; an item or batch
\* that the compressor cannot shrink is stored uncompressed, never dropped or
\* duplicated.
C29_RewriteConservesItems ==
    [][InsertRewritesLeaf =>
           /\ WrittenOld =
                  AllItems(SelectSeq(pages[RightmostLeafOf(pages)].items,
                                     LAMBDA it : ~OldEnoughDead(it)))
           /\ NewRowsStoredOnce]_vars

\* the same with the dead items left out that the rewrite leaves out: those
\* whose UNDO pointer is not above the oldest live one
RewriteConservesItemsButElided ==
    [][InsertRewritesLeaf =>
           /\ WrittenOld =
                  AllItems(SelectSeq(pages[RightmostLeafOf(pages)].items,
                                     LAMBDA it : ~DeadItemElided(it, oldestundo)))
           /\ NewRowsStoredOnce]_vars

\* probes: an insert rewrote a leaf that held a container, a leaf that held
\* a dead item which stayed, and a batch was stored uncompressed
RewriteKeptContainer ==
    /\ lastop.op = "insert" /\ lastop.result = "ok"
    /\ \E b \in LeafBlocks : \E k \in DOMAIN pages[b].items :
           /\ pages[b].items[k].kind = "compressed"
           /\ zsbt_item_lasttid(pages[b].items[k]) < lastop.tid
RewriteKeptDeadItem ==
    /\ lastop.op = "insert" /\ lastop.result = "ok"
    /\ \E b \in LeafBlocks : \E k \in DOMAIN LeafItems(b) :
           "DEAD" \in LeafItems(b)[k].flags

\* this step is a zsbt_delete or a zsbt_remove_item whose target is inside an
\* array item
CutsArray ==
    /\ lastop'.op \in {"delete", "remove"} /\ lastop'.result \in {"ok", TM_Ok}
    /\ ItemAt(pages, lastop'.tid) # NoItem
    /\ ItemAt(pages, lastop'.tid).kind = "array"

\* after the step, one item covers exactly the TIDs from..to, with the UNDO
\* pointer and null flag of the array aitem and its elements for these TIDs
PieceOf(aitem, from, to) ==
    /\ ItemAt(pages', from) # NoItem
    /\ ItemAt(pages', from).tid = from
    /\ zsbt_item_lasttid(ItemAt(pages', from)) = to
    /\ ItemAt(pages', from).undo = aitem.undo
    /\ ItemAt(pages', from).flags = aitem.flags
    /\ \A t \in from..to : ElementAt(pages', t) = ExtractElement(aitem, t)

\* what is at the target after the step: the replacement of a delete, a
\* single item with the DELETED flag, or nothing after a removal
ReplacementOf(aitem, tid) ==
    IF lastop'.op = "remove" THEN ItemAt(pages', tid) = NoItem
    ELSE /\ ItemAt(pages', tid) # NoItem
         /\ ItemAt(pages', tid).kind = "single"
         /\ ItemAt(pages', tid).tid = tid
         /\ "DELETED" \in ItemAt(pages', tid).flags

\* the items of the leaves, containers opened, from the leftmost leaf on
AllLeafItems(pp) ==
    ChainItems(pp, CHOOSE b \in DOMAIN pp : pp[b].level = 0 /\ pp[b].lokey = MinZSTid)

InTidOrder(its) ==
    \A k \in 1..(Len(its) - 1) : zsbt_item_lasttid(its[k]) < its[k + 1].tid

\* C30: when a leaf rewrite replaces or removes old_tid inside an array item
\* covering [a, b], the array is replaced by the non-empty pieces among
\* [a, old_tid), the replacement item for old_tid (nothing when removing) and
\* (old_tid, b], emitted in that order; each remaining piece keeps the
\* original elements, null flag and UNDO pointer for its TIDs, so the set of
\* TIDs of the array with an item changes only at old_tid.
C30_ArrayCutAroundTarget ==
    [][CutsArray =>
           LET aitem == ItemAt(pages, lastop'.tid)
               old_tid == lastop'.tid
           IN /\ aitem.tid < old_tid => PieceOf(aitem, aitem.tid, old_tid - 1)
              /\ ReplacementOf(aitem, old_tid)
              /\ old_tid < zsbt_item_lasttid(aitem) =>
                     PieceOf(aitem, old_tid + 1, zsbt_item_lasttid(aitem))
              /\ InTidOrder(AllLeafItems(pages'))]_vars

\* a delete has cut an array of three rows in the middle: the rows before and
\* after the deleted one are single items with the UNDO pointer of the insert
C30_Witness ==
    /\ lastop.op = "delete" /\ lastop.result = TM_Ok
    /\ lastop.tid - 1 \in Tids /\ lastop.tid + 1 \in Tids
    /\ ItemAt(pages, lastop.tid - 1) # NoItem /\ ItemAt(pages, lastop.tid + 1) # NoItem
    /\ ItemAt(pages, lastop.tid - 1).kind = "single"
    /\ ItemAt(pages, lastop.tid + 1).kind = "single"
    /\ ItemAt(pages, lastop.tid - 1).undo = ItemAt(pages, lastop.tid + 1).undo
    /\ ItemAt(pages, lastop.tid) # NoItem
    /\ "DELETED" \in ItemAt(pages, lastop.tid).flags

\* probes: a removal has cut an array that was inside a container; a cut left
\* an array piece of two rows
CutInsideContainer ==
    /\ lastop.op = "remove" /\ lastop.result = "ok"
    /\ lastop.tid + 1 \in Tids /\ ItemAt(pages, lastop.tid + 1) # NoItem
    /\ ItemAt(pages, lastop.tid + 1).payload # <<>>
CutLeftArrayPiece ==
    /\ lastop.op \in {"delete", "remove"} /\ lastop.result \in {"ok", TM_Ok}
    /\ lastop.tid + 1 \in Tids /\ ItemAt(pages, lastop.tid + 1) # NoItem
    /\ ItemAt(pages, lastop.tid + 1).kind = "array"
    /\ ItemAt(pages, lastop.tid + 1).tid = lastop.tid + 1

\* this step is a leaf rewrite that could not get a buffer for one of its
\* page images
AllocationFails == lastop'.op = "insert" /\ lastop'.result = "no_space"

\* C31: if allocating a buffer for any of the page images 2..k fails during
\* a leaf rewrite, the original leaf page and every other tree page are
\* exactly as they were before the rewrite began: all new buffers are
\* obtained before the first page image is written, so a resource error
\* never leaves a page half-written or a split half-applied.
C31_FailedAllocationWritesNothing ==
    [][AllocationFails =>
           /\ \A blk \in DOMAIN pages : pages'[blk] = pages[blk]
           /\ \A blk \in DOMAIN pages' \ DOMAIN pages : pages'[blk] = UnusedPage
           /\ rootblk' = rootblk]_vars

\* the second of the two buffers a rewrite into three pages needs could not
\* be allocated
C31_Witness ==
    /\ lastop.op = "insert" /\ lastop.result = "no_space" /\ lastop.n = 3
    /\ pages[Len(pages)] = UnusedPage

\* ---------------------------------------------------------------- root growth
\* the block of the root directory entry is the one page with ZSBT_ROOT
RootFlagOnRecordedBlock ==
    \A blk \in 1..Len(pages) : pages[blk].used => (pages[blk].root <=> blk = rootblk)

\* a step of a tree that has a root changes the root directory entry
GrewRoot == rootblk # InvalidBlockNumber /\ rootblk' # rootblk

\* the page that was the root has a right sibling after the step
OldRootIsSplit == pages'[rootblk].hikey # MaxPlusOneZSTid

\* the new root: one level above the old one, two entries, the old root to
\* the left, flagged root; the old root has lost both flags
NewRootOverOldRoot ==
    LET old == pages'[rootblk]
        new == pages'[rootblk']
    IN /\ rootblk' = Len(pages')
       /\ new.level = pages[rootblk].level + 1
       /\ new.downlinks = <<Downlink(MinZSTid, rootblk), Downlink(old.hikey, old.next)>>
       /\ pages'[old.next].lokey = old.hikey
       /\ new.root /\ ~new.followright
       /\ ~old.root /\ ~old.followright

RootGrowthStep ==
    /\ GrewRoot => lastop'.op = "rewrite_downlink" /\ lastop'.result = "ok"
    /\ lastop'.op = "rewrite_downlink" /\ lastop'.result = "ok"
           => (GrewRoot <=> OldRootIsSplit) /\ (GrewRoot => NewRootOverOldRoot)

\* C32: the root grows exactly when the page that is split is the current
\* root of the tree: the new root is one level above it and holds the two
\* entries (MinTid, left block) and (right lokey, right block), the left
\* child loses the root and the follow-right flag, the root directory entry
\* is switched in the same step; before and after, the block of the root
\* directory entry is the one page that carries the root flag
C32_RootGrowsWhenRootSplits == []RootFlagOnRecordedBlock /\ [][RootGrowthStep]_vars

\* the same steps, without the flag of the first root
RootGrowthSteps == [][RootGrowthStep]_vars

\* the first root of the metapage routine at hand has been split and the
\* backend is in the downlink loop with the root locked
UnflaggedRootSplit ==
    \E b \in Backends :
        /\ Rewriting(b) /\ Len(backend[b].bufs) > 1
        /\ backend[b].bufs[1] = rootblk /\ ~pages[rootblk].root

\* a root has grown over an internal page
RootGrownTwice == rootblk # InvalidBlockNumber /\ pages[rootblk].level = 2

\* ---------------------------------------------------------------- internal page split
\* the internal pages that the step splits: their high key changes
SplitInternalPages ==
    {blk \in 1..Len(pages) : pages[blk].level >= 1 /\ pages'[blk].hikey # pages[blk].hikey}

\* the step has rewritten one leaf into two pages: one downlink is inserted
\* at level 1, and one at each level above at which a page is split
UsedLeaves(pp) == {blk \in 1..Len(pp) : pp[blk].used /\ pp[blk].level = 0}

OneLeafSplit == Cardinality(UsedLeaves(pages')) = Cardinality(UsedLeaves(pages)) + 1

StrictlyAscending(entries) ==
    \A i \in 1..Len(entries) - 1 : entries[i].tid < entries[i + 1].tid

\* the positions of the entries of the two pages that the page did not have
NewEntries(orig, all) ==
    {j \in 1..Len(all) : \A i \in 1..Len(orig) : all[j] # orig[i]}

InternalSplitIsRight(blk) ==
    LET orig == pages[blk]
        L == pages'[blk]
        R == pages'[L.next]
        splittid == L.hikey
        n == Len(orig.downlinks)
        all == L.downlinks \o R.downlinks
    IN /\ ZSBtreeInternalPageIsFull(orig) /\ n >= 2
       /\ Len(all) = n + 1
       /\ \A i \in 1..n : Cardinality({j \in 1..Len(all) : all[j] = orig.downlinks[i]}) = 1
       /\ Cardinality(NewEntries(orig.downlinks, all)) = 1
       /\ \A j \in NewEntries(orig.downlinks, all) :
              /\ all[j].childblk > Len(pages)
              /\ pages'[all[j].childblk].lokey = all[j].tid
              /\ j <= Len(L.downlinks) <=> all[j].tid < splittid
       /\ StrictlyAscending(L.downlinks) /\ StrictlyAscending(R.downlinks)
       /\ \A i \in 1..Len(L.downlinks) : L.downlinks[i].tid < splittid
       /\ \A i \in 1..Len(R.downlinks) : R.downlinks[i].tid >= splittid
       /\ L.next > Len(pages) /\ L.lokey = orig.lokey /\ L.level = orig.level
       /\ R.lokey = splittid /\ R.hikey = orig.hikey /\ R.next = orig.next
       /\ R.level = orig.level

\* C33: a full internal page of n >= 2 entries that is split for one new
\* downlink: each of the n + 1 entries is on exactly one of the two pages,
\* both pages are sorted, every tid of the left page is below the split tid
\* and every tid of the right page is at or above it, the new entry is on the
\* side its key belongs to, the right page has the split tid as lokey and the
\* hikey and next of the original, the left page has the split tid as hikey
\* and the right page as next
C33_InternalSplitKeepsEntries ==
    [][OneLeafSplit => \A blk \in SplitInternalPages : InternalSplitIsRight(blk)]_vars

\* the pages a split left behind: the left one with the root flag and
\* follow-right cleared, the right one next to it
SplitPair(l, r) ==
    /\ pages[l].level >= 1 /\ pages[l].next = r /\ pages[r].lokey = pages[l].hikey
    /\ pages[r].level = pages[l].level /\ ~pages[l].followright

\* a removal has split a leaf in the middle and its parent of two entries
\* with it: the new entry went left, one entry went right
C33_Witness ==
    /\ lastop.op = "remove" /\ lastop.result = "ok"
    /\ \E l, r \in 1..Len(pages) :
           SplitPair(l, r) /\ Len(pages[l].downlinks) = 2 /\ Len(pages[r].downlinks) = 1

\* an insert has split the rightmost leaf and its parent: the new entry is
\* the last one of the right page
InternalSplitNewOnRight ==
    /\ lastop.op = "insert" /\ lastop.result = "ok"
    /\ \E l, r \in 1..Len(pages) :
           SplitPair(l, r) /\ Len(pages[l].downlinks) = 1 /\ Len(pages[r].downlinks) = 2

\* ---------------------------------------------------------------- array items of an insert
Packed == lastop.op = "create_items"

\* row j goes on with the run of row j - 1
SameRun(j) ==
    lastop.isnulls[j] = lastop.isnulls[j - 1] /\ lastop.tids[j] = lastop.tids[j - 1] + 1

LastRow(it) == it.first + it.nelements - 1

RECURSIVE SumOf(_, _, _)
SumOf(sizes, from, to) == IF from > to THEN 0 ELSE sizes[from] + SumOf(sizes, from + 1, to)

\* every row is in one item, in order; an item holds rows of one run, is a
\* single item exactly when it holds one row, and its payload is the sum of
\* the sizes of its datums
ItemsAreRuns ==
    LET items == lastop.items IN
    /\ items # <<>> /\ items[1].first = 1 /\ LastRow(items[Len(items)]) = lastop.n
    /\ \A k \in 1..Len(items) - 1 : items[k + 1].first = LastRow(items[k]) + 1
    /\ \A k \in 1..Len(items) :
           /\ items[k].nelements >= 1
           /\ \A j \in items[k].first + 1..LastRow(items[k]) : SameRun(j)
           /\ items[k].kind = "single" <=> items[k].nelements = 1
           /\ items[k].datasz = SumOf(lastop.sizes, items[k].first, LastRow(items[k]))

\* an item ends before a row that goes on with its run only when the datum
\* of that row would take the payload to the cap or above it
RunsClosedAtCap ==
    \A k \in 2..Len(lastop.items) :
        LET j == lastop.items[k].first IN
        SameRun(j) =>
            /\ ~lastop.isnulls[j]
            /\ lastop.items[k - 1].datasz + lastop.sizes[j] >= DatumCap \div 4

NoArrayAboveCap ==
    \A k \in 1..Len(lastop.items) :
        lastop.items[k].kind = "array" => lastop.items[k].datasz <= DatumCap \div 4

\* C34: zsbt_multi_insert packs each maximal run of datums with consecutive
\* TIDs and equal null-ness into one item, a single item for a run of one
\* element and an array item otherwise; it closes a run of non-null datums
\* only when the next datum would take the payload to MaxZedStoreDatumSize / 4
\* or more, and no array item has a payload above that cap
C34_RunsPackedUpToCap == Packed => ItemsAreRuns /\ RunsClosedAtCap /\ NoArrayAboveCap

\* what the loop does: an item ends before a row that goes on with its run
\* when the payload with the datum of that row is below the quarter
RunsClosedBelowCap ==
    Packed => /\ ItemsAreRuns
              /\ \A k \in 2..Len(lastop.items) :
                     LET j == lastop.items[k].first IN
                     SameRun(j) =>
                         /\ ~lastop.isnulls[j]
                         /\ lastop.items[k - 1].datasz + lastop.sizes[j] < DatumCap \div 4
              /\ \A k \in 1..Len(lastop.items) :
                     LET j == LastRow(lastop.items[k]) + 1 IN
                     j <= lastop.n /\ SameRun(j) /\ ~lastop.isnulls[j]
                         => lastop.items[k].nelements = 1

\* an array item of non-null datums whose payload is above MaxZedStoreDatumSize
ArrayAboveDatumSize ==
    Packed /\ \E k \in 1..Len(lastop.items) :
                 lastop.items[k].kind = "array" /\ lastop.items[k].datasz > DatumCap

\* two small datums of one run in two single items
SmallDatumsNotPacked ==
    Packed /\ \E k \in 2..Len(lastop.items) :
                 /\ SameRun(lastop.items[k].first)
                 /\ lastop.items[k - 1].datasz + lastop.sizes[lastop.items[k].first]
                        < DatumCap \div 4

\* ---------------------------------------------------------------- tuple locks
\* this step is a zsbt_lock_item that returned TM_Ok
LockReturnsOk == lastop'.op = "lock" /\ lastop'.result = TM_Ok

\* the item of the call differs from the one before in the UNDO pointer
\* only, which is the new record: a tuple lock of the caller that chains to
\* the UNDO pointer the item had
LockChainsToHead ==
    LET before == ElementAt(pages, lastop'.tid)
        after == ElementAt(pages', lastop'.tid)
    IN /\ before # NoItem /\ after # NoItem
       /\ after = [before EXCEPT !.undo = Len(undolog')]
       /\ Len(undolog') = Len(undolog) + 1
       /\ undolog'[Len(undolog')].type = ZSUNDO_TYPE_TUPLE_LOCK
       /\ undolog'[Len(undolog')].xid = lastop'.xid
       /\ undolog'[Len(undolog')].prevundorec = before.undo

\* a chain that ends at a trimmed record is as good as one that ends
LockChainsToLiveHead ==
    LET before == ElementAt(pages, lastop'.tid)
        rec == undolog'[Len(undolog')]
    IN rec.type = ZSUNDO_TYPE_TUPLE_LOCK
       /\ \/ rec.prevundorec = before.undo
          \/ rec.prevundorec = InvalidUndoPtr /\ before.undo < oldestundo

\* zs_SatisfiesVisibility says of the locked item what it said before, for
\* every snapshot of the kinds given that a backend can hold
LockKeepsVisibility(kinds) ==
    \A sn \in VisSnapshots :
        ValidVisSnapshot(sn) /\ sn.type \in kinds =>
            zs_SatisfiesVisibility(undolog', xstatus', oldestundo', sn,
                                   ElementAt(pages', lastop'.tid))
                = zs_SatisfiesVisibility(undolog, xstatus, oldestundo, sn,
                                         ElementAt(pages, lastop'.tid))

LockLeavesOtherItems ==
    \A tid \in Tids \ {lastop'.tid} : ElementAt(pages', tid) = ElementAt(pages, tid)

\* C35: zsbt_lock_item rewrites the locked item so that its UNDO pointer is a
\* new tuple-lock record whose prev pointer is the UNDO pointer the item had,
\* and changes nothing else: under every snapshot kind zs_SatisfiesVisibility
\* says of the item what it said before the lock, and no other item changes
C35_LockChangesOnlyUndoPointer ==
    [][LockReturnsOk => /\ LockChainsToHead
                        /\ LockKeepsVisibility(AllSnapshotTypes)
                        /\ LockLeavesOtherItems]_vars

\* the same without the Self snapshots
LockKeepsOtherKinds ==
    [][LockReturnsOk => /\ LockChainsToLiveHead
                        /\ LockKeepsVisibility(AllSnapshotTypes \ {"SELF"})]_vars

LockKeepsItems == [][LockReturnsOk => LockLeavesOtherItems]_vars

LockKeepsSelf == [][LockReturnsOk => LockKeepsVisibility({"SELF"})]_vars

LockKeepsChain == [][LockReturnsOk => LockChainsToHead]_vars

\* a row whose insert is committed and not trimmed carries the lock of a
\* transaction in progress
LockedByRunning ==
    /\ lastop.op = "lock" /\ lastop.result = TM_Ok
    /\ InProgress(lastop.xid)
    /\ LET rec == undolog[ElementAt(pages, lastop.tid).undo] IN
           /\ rec.type = ZSUNDO_TYPE_TUPLE_LOCK
           /\ rec.prevundorec >= oldestundo
           /\ undolog[rec.prevundorec].type = ZSUNDO_TYPE_INSERT

\* ---------------------------------------------------------------- rows of the current transaction
\* the insert record of the item evaluated, past tuple locks; 0 when it is
\* trimmed
EvaluatedInsertPtr == SkipLocks(undolog, zsbt_item_undoptr(EvaluatedItem), oldestundo)

\* zs_SatisfiesVisibility was evaluated on an item that is not dead, deleted
\* or updated and whose insert record the transaction of the snapshot wrote
OwnInsertEvaluated ==
    /\ VisibilityEvaluated
    /\ EvaluatedItem # NoItem
    /\ "DEAD" \notin EvaluatedItem.flags /\ ~IsDeletedItem(EvaluatedItem)
    /\ IsZSUndoRecPtrValid(zsbt_item_undoptr(EvaluatedItem))
    /\ EvaluatedInsertPtr # InvalidUndoPtr
    /\ undolog[EvaluatedInsertPtr].type = ZSUNDO_TYPE_INSERT
    /\ lastop.snapshot.curxid # 0
    /\ undolog[EvaluatedInsertPtr].xid = lastop.snapshot.curxid

InsertedByEarlierCommand == undolog[EvaluatedInsertPtr].cid < lastop.snapshot.curcid

\* C36: under the snapshot kinds that consult the insert record (MVCC, Self,
\* Dirty), an item that is not deleted or updated and whose insert record the
\* current transaction wrote is visible if and only if the cid of the record
\* is below the curcid of the snapshot
C36_OwnInsertVisibleByCid ==
    OwnInsertEvaluated /\ lastop.snapshot.type \in {"MVCC", "SELF", "DIRTY"}
        => (lastop.result <=> InsertedByEarlierCommand)

\* C36 (amended): such an item is visible to an MVCC snapshot if and only if
\* the cid of the insert record is below the curcid of the snapshot, and is
\* visible to a Self and to a Dirty snapshot whatever the cid
C36_OwnInsertVisibleByKind ==
    OwnInsertEvaluated =>
        /\ lastop.snapshot.type = "MVCC" => (lastop.result <=> InsertedByEarlierCommand)
        /\ lastop.snapshot.type \in {"SELF", "DIRTY"} => lastop.result

\* an MVCC snapshot has not seen a row its own command inserted
C36_Witness ==
    /\ OwnInsertEvaluated /\ lastop.snapshot.type = "MVCC"
    /\ ~InsertedByEarlierCommand /\ ~lastop.result

OwnInsertSeenByLaterCommand ==
    /\ OwnInsertEvaluated /\ lastop.snapshot.type = "MVCC"
    /\ InsertedByEarlierCommand /\ lastop.result

OwnInsertSeenBySelf ==
    /\ OwnInsertEvaluated /\ lastop.snapshot.type = "SELF"
    /\ ~InsertedByEarlierCommand /\ lastop.result

OwnInsertSeenByDirty ==
    /\ OwnInsertEvaluated /\ lastop.snapshot.type = "DIRTY"
    /\ ~InsertedByEarlierCommand /\ lastop.result

\* ---------------------------------------------------------------- concurrent row inserts
\* the TIDs whose insert into the tree of the state has returned
InsertedTids == (1..nrows) \ {backend[b].tid : b \in {x \in Backends : RowInserting(x)}}

LeavesInTidOrder ==
    \A blk \in DOMAIN pages :
        pages[blk].level = 0 => InTidOrder(AllItems(pages[blk].items))

ScanYieldsInserted ==
    rootblk # InvalidBlockNumber =>
        ScanYield(pages, rootblk, undolog, xstatus, oldestundo,
                  Snapshot("ANY", 0, 0, {}, 0)) = InsertedTids

\* C37: whatever the order in which concurrent row inserts, which have got
\* their TIDs from the tree of the first attribute, reach the tree of a later
\* attribute, every leaf of it keeps its items in strictly ascending TID
\* order, not overlapping, and a scan of it yields every inserted TID
C37_ConcurrentInsertsKeepOrder == LeavesInTidOrder /\ ScanYieldsInserted

\* no insert with a TID raises an error
RowInsertsReturn == lastop.op = "insert" => lastop.result = "ok"

\* ---------------------------------------------------------------- concurrent updates of one row
\* backend b takes the last step of its zsbt_update, zsbt_mark_old_updated,
\* after another transaction, whose zsbt_update ran between the steps of b
\* and which has not aborted, has marked the same old item updated
LosesUpdateRace(b) ==
    /\ backend[b] # Idle
    /\ backend[b].pc = "mark_old"
    /\ backend'[b] = Idle
    /\ HasNewVersion(backend[b].otid)
    /\ UpdateRecordOf(backend[b].otid).xid # backend[b].xid
    /\ xstatus[UpdateRecordOf(backend[b].otid).xid] # "aborted"

\* the old item stays linked to the version of the transaction that marked it
WinnerStaysLinked(b) ==
    /\ ItemAt(pages', backend[b].otid) = ItemAt(pages, backend[b].otid)
    /\ ItemAt(pages', UpdateRecordOf(backend[b].otid).newtid) # NoItem
    /\ UpdateRecordOf(backend[b].otid).newtid # backend[b].newtid

\* the version that backend b has inserted is no longer in the tree
LoserLeavesNoItem(b) == ItemAt(pages', backend[b].newtid) = NoItem

\* C38: when two transactions run zsbt_update on the same old TID with their
\* steps interleaved, only one of them leaves a new row version in the tree
\* and the old item is linked to that version; the other one gets a conflict
\* result and none of the items it has inserted stays in the tree.
C38_OneConcurrentUpdateWins ==
    [][\A b \in Backends :
           LosesUpdateRace(b) =>
               /\ lastop'.op = "update"
               /\ lastop'.result \in ConflictResults
               /\ WinnerStaysLinked(b)
               /\ LoserLeavesNoItem(b)]_vars

\* what the second zsbt_mark_old_updated does: the old item stays linked to
\* the first version, the conflict is detected and raised as an error
LoserRaisesError ==
    [][\A b \in Backends :
           LosesUpdateRace(b) =>
               /\ lastop'.op = "update"
               /\ lastop'.detected \in ConflictResults
               /\ lastop'.result = "ERROR"
               /\ WinnerStaysLinked(b)]_vars

\* ---------------------------------------------------------------- visibility after chain replacement
\* an item that zs_SatisfiesVisibility finds visible under an MVCC snapshot
\* was inserted by a transaction visible to that snapshot
VisibleOnlyWithInserter ==
    \A tid \in StoredTids : \A sn \in MVCCSnapshots :
        zs_SatisfiesVisibility(undolog, xstatus, oldestundo, sn, ItemAt(pages, tid))
            => InserterVisible(sn, tid)

\* this step is a zsbt_undo_item_deletion that has reset the UNDO pointer of
\* the item of tid to invalid
ResetsUndoPointer(tid) ==
    /\ ItemAt(pages, tid) # NoItem
    /\ ItemAt(pages', tid) # NoItem
    /\ zsbt_item_undoptr(ItemAt(pages, tid)) # InvalidUndoPtr
    /\ zsbt_item_undoptr(ItemAt(pages', tid)) = InvalidUndoPtr

\* a pointer is replaced without a link to the old head, or reset, only when
\* every snapshot a backend can hold sees the transaction that inserted the row
UnlinkedOnlyWhenInsertSeen ==
    /\ WritesUnlinkedRecord => \A sn \in MVCCSnapshots : InserterVisible(sn, lastop'.tid)
    /\ \A tid \in StoredTids :
           ResetsUndoPointer(tid) => \A sn \in MVCCSnapshots : InserterVisible(sn, tid)

\* C39: after any sequence of inserts, deletes, updates, locks, aborts and
\* undone deletions no MVCC snapshot finds an item visible whose inserting
\* transaction it does not see: a delete, update or lock writes its record
\* without a link to the old head, and an undone deletion resets the pointer
\* of the item, only when no live snapshot needs the insert record any more.
C39_NoItemSeenWithoutInserter ==
    []VisibleOnlyWithInserter /\ [][UnlinkedOnlyWhenInsertSeen]_vars

UnlinkedWritesAreSafe == [][UnlinkedOnlyWhenInsertSeen]_vars

\* ---------------------------------------------------------------- ranges of a parallel scan
RangesDisjoint ==
    \A i, j \in DOMAIN scanout :
        i < j => scanout[i].end <= scanout[j].start \/ scanout[j].end <= scanout[i].start

RangesBelowEnd == \A i \in DOMAIN scanout : scanout[i].start < scan.pzs_endtid

\* a call has returned false
RangesExhausted == \E b \in Backends : backend[b].pc = "finished"

RangesCover ==
    RangesExhausted =>
        \A tid \in MinZSTid..(scan.pzs_endtid - 1) :
            \E i \in DOMAIN scanout : scanout[i].start <= tid /\ tid < scanout[i].end

FalseAfterExhausted ==
    (RangesExhausted /\ lastop'.op = "nextrange" /\ scan' # scan)
        => lastop'.result = FALSE

\* C40: however the calls of zs_parallelscan_nextrange of the workers of one
\* parallel scan interleave, the ranges handed out with a true result are
\* pairwise disjoint, none of them starts at or after the end TID fixed at
\* initialization, together they cover every TID from the minimum TID up to
\* that end TID, and once a call has returned false every later call does.
C40_RangesPartitionTidSpace ==
    /\ [](ParallelScanStarted => RangesDisjoint /\ RangesBelowEnd /\ RangesCover)
    /\ [][FalseAfterExhausted]_vars

\* while the counter has not passed the largest BlockNumber, all of it holds
RangesPartitionBeforeWrap ==
    (ParallelScanStarted /\ scan.pzs_allocatedtid_blk <= BlockNumberRange)
        => RangesDisjoint /\ RangesBelowEnd /\ RangesCover

RangeHandedOutTwice ==
    \E i, j \in DOMAIN scanout : i < j /\ scanout[i] = scanout[j]

\* ---------------------------------------------------------------- incomplete splits
\* an internal page holds a downlink to block blk
HasDownlink(blk) ==
    \E p \in DOMAIN pages :
        /\ pages[p].used /\ pages[p].level > 0
        /\ \E i \in DOMAIN pages[p].downlinks : pages[p].downlinks[i].childblk = blk

\* the right sibling of page P is a page of the same level that begins where P
\* ends, and no internal page points to it
SiblingWithoutDownlink(P) ==
    /\ pages[P].next \in DOMAIN pages
    /\ pages[pages[P].next].used
    /\ pages[pages[P].next].level = pages[P].level
    /\ pages[pages[P].next].lokey = pages[P].hikey
    /\ ~HasDownlink(pages[P].next)

\* C5: in every state, and so in every state in which another process can
\* see the page, a page with follow-right set has a right sibling whose lokey
\* is the page's hikey and to which no entry of any internal page points;
\* hence once a downlink to the sibling exists, follow-right is clear.
C5_FollowRightMeansNoDownlink ==
    \A P \in DOMAIN pages :
        (pages[P].used /\ pages[P].followright) => SiblingWithoutDownlink(P)

\* a rewrite into three pages has inserted the downlink of its second page:
\* follow-right is clear on the first page and still set on the second
C5_Witness ==
    /\ lastop.op = "rewrite_downlink"
    /\ lastop.result = "ok"
    /\ ~pages[lastop.bufs[1]].followright
    /\ HasDownlink(lastop.bufs[2])
    /\ pages[lastop.bufs[2]].followright
    /\ \E b \in Backends : Descending(b)

\* ---------------------------------------------------------------- descents during a split
\* the page a descent has returned is at the requested level and its key
\* range holds the key
ReturnsPageOfKey(blk, key, level) ==
    /\ pages'[blk].used
    /\ pages'[blk].level = level
    /\ pages'[blk].lokey <= key
    /\ key < pages'[blk].hikey

\* C7: while one process splits a leaf (page write-out, downlink inserts,
\* internal splits, root growth), every zsbt_descend of another process
\* completes without error and returns the page of the requested level
\* whose key range holds the key.
C7_DescentsSurviveSplit ==
    [][lastop'.op = "descend" =>
           /\ lastop'.result # "ERROR"
           /\ lastop'.result = "found" =>
                  ReturnsPageOfKey(lastop'.n, lastop'.tid, 0)]_vars

\* a descent that returns a page returns the page of the key
ReturnedPageHoldsKey ==
    [][(lastop'.op = "descend" /\ lastop'.result = "found") =>
           ReturnsPageOfKey(lastop'.n, lastop'.tid, 0)]_vars

\* a descent that has not restarted raises no error
ErrorOnlyAfterRestart ==
    [][(lastop'.op = "descend" /\ lastop'.result = "ERROR") =>
           lastop'.failblk # InvalidBlockNumber]_vars

\* ---------------------------------------------------------------- lock waits
\* the backends that hold a lock backend b waits for: a descent waits for
\* the page it is about to lock, a downlink insert for the internal pages
\* of its way from the root
WaitsFor(b) ==
    IF Descending(b) /\ backend[b].pc = "visit"
    THEN IF backend[b].next # backend[b].failblk /\ backend[b].next \in DOMAIN buflocks
         THEN {buflocks[backend[b].next]}
         ELSE {}
    ELSE IF Rewriting(b) /\ Len(backend[b].bufs) > 1
    THEN {buflocks[x] : x \in {y \in DOMAIN buflocks :
                                  buflocks[y] # b /\ pages[y].level > 0}}
         \cup (IF RootNotHeld(b, backend[b].bufs[1]) THEN {} ELSE {b})
    ELSE {}

\* every backend of the set waits for a lock that a backend of the set holds
WaitCycle(S) == S # {} /\ \A b \in S : WaitsFor(b) \cap S # {}

WaitersWaitForRunners ==
    \A b \in Backends : \A o \in WaitsFor(b) : WaitsFor(o) = {}

====
